---- MODULE Spec2Model ----
(***************************************************************************)
(* State-machine model of the FileMaker MCP adapter: the error resolver    *)
(* (src/api/error-mapper.ts), the transport client (src/api/client.ts),    *)
(* the session manager (src/api/session.ts), the cross-layout search       *)
(* (src/analyzers/global-searcher.ts), the metadata aggregator             *)
(* (exportDatabaseMetadata) and the relationship inferrer                  *)
(* (inferForeignKeyFromField, inferRelationships).                         *)
(*                                                                         *)
(* Conventions.  An optional value (T | undefined, T | null) is a set with *)
(* at most one element: {} is undefined or null, {x} is x.                 *)
(* A template string is the tuple of its parts.  A handler runs between    *)
(* its awaits without interleaving, so under the sequential                *)
(* specifications one action is one whole handler; the remote calls it     *)
(* awaited are recorded, in order, in calls.                               *)
(***************************************************************************)
EXTENDS Integers, Sequences, FiniteSets, TLC

VARIABLES
    state,       \* SessionManager.state: {} (null) or {a SessionState record}
    httpClient,  \* SessionManager.httpClient: {} (null) or {a client record}
    now,         \* Date.now(), in milliseconds
    op,          \* the operation that ran last, with its arguments
    result,      \* the value that operation returned to its caller
    twin,        \* the value it returns in the run whose tokens are Twin(token)
    calls,       \* the remote calls that operation awaited, in order
    arg,         \* input of the pure function under check
    ret          \* its output ({} before it is applied)

vars == <<state, httpClient, now, op, result, twin, calls, arg, ret>>

sessionVars == <<state, httpClient, now, op, result, twin, calls>>

pureVars == <<arg, ret>>

(***************************************************************************)
(* Bounds of the model.                                                    *)
(***************************************************************************)
\* the clock stops advancing here (milliseconds)
MaxNow == 1000

\* one step of the clock (milliseconds)
TickMs == 1000

(***************************************************************************)
(* src/api/error-mapper.ts                                                 *)
(***************************************************************************)
ErrorCodes ==
    [ AUTH_INVALID_CREDENTIALS     |-> 1001,
      AUTH_SERVER_UNAVAILABLE      |-> 1002,
      AUTH_DATABASE_NOT_FOUND      |-> 1003,
      AUTH_INSUFFICIENT_PRIVILEGES |-> 1004,
      AUTH_ACCOUNT_LOCKED          |-> 1005,
      SESSION_EXPIRED              |-> 2001,
      SESSION_INVALID              |-> 2002,
      SESSION_MAX_CONNECTIONS      |-> 2003,
      API_LAYOUT_NOT_FOUND         |-> 3001,
      API_RECORD_NOT_FOUND         |-> 3002,
      API_FIELD_NOT_FOUND          |-> 3003,
      API_INVALID_QUERY            |-> 3004,
      API_INSUFFICIENT_PRIVILEGES  |-> 3005,
      API_RATE_LIMITED             |-> 3006,
      ANALYSIS_METADATA_FAILED     |-> 4001,
      ANALYSIS_PORTAL_FAILED       |-> 4002,
      ANALYSIS_TIMEOUT             |-> 4003,
      INTERNAL_UNKNOWN             |-> 5001,
      INTERNAL_CONFIG_ERROR        |-> 5002,
      INTERNAL_MEMORY_ERROR        |-> 5003 ]

ErrorInfo(c, m, r) == [code |-> c, message |-> m, retryable |-> r]

HTTP_ERROR_MAP ==
    400 :> ErrorInfo(ErrorCodes.API_INVALID_QUERY, "Bad request", FALSE)
 @@ 401 :> ErrorInfo(ErrorCodes.SESSION_EXPIRED, "Session expired", TRUE)
 @@ 403 :> ErrorInfo(ErrorCodes.AUTH_INSUFFICIENT_PRIVILEGES, "Insufficient privileges", FALSE)
 @@ 404 :> ErrorInfo(ErrorCodes.API_LAYOUT_NOT_FOUND, "Resource not found", FALSE)
 @@ 409 :> ErrorInfo(ErrorCodes.API_INVALID_QUERY, "Conflict", FALSE)
 @@ 413 :> ErrorInfo(ErrorCodes.API_INVALID_QUERY, "Payload too large", FALSE)
 @@ 429 :> ErrorInfo(ErrorCodes.API_RATE_LIMITED, "Rate limited - too many requests", TRUE)
 @@ 500 :> ErrorInfo(ErrorCodes.INTERNAL_UNKNOWN, "FileMaker server error", TRUE)
 @@ 502 :> ErrorInfo(ErrorCodes.AUTH_SERVER_UNAVAILABLE, "Bad gateway", TRUE)
 @@ 503 :> ErrorInfo(ErrorCodes.AUTH_SERVER_UNAVAILABLE, "FileMaker server unavailable", TRUE)
 @@ 504 :> ErrorInfo(ErrorCodes.AUTH_SERVER_UNAVAILABLE, "Gateway timeout", TRUE)

FM_ERROR_MAP ==
    100 :> ErrorInfo(ErrorCodes.API_RECORD_NOT_FOUND, "File is missing", FALSE)
 @@ 101 :> ErrorInfo(ErrorCodes.API_RECORD_NOT_FOUND, "Record is missing", FALSE)
 @@ 102 :> ErrorInfo(ErrorCodes.API_FIELD_NOT_FOUND, "Field is missing", FALSE)
 @@ 105 :> ErrorInfo(ErrorCodes.API_LAYOUT_NOT_FOUND, "Layout is missing", FALSE)
 @@ 212 :> ErrorInfo(ErrorCodes.AUTH_INVALID_CREDENTIALS, "Invalid username or password", FALSE)
 @@ 214 :> ErrorInfo(ErrorCodes.AUTH_ACCOUNT_LOCKED, "Account is locked out", FALSE)
 @@ 400 :> ErrorInfo(ErrorCodes.API_INVALID_QUERY, "Find criteria are empty", FALSE)
 @@ 401 :> ErrorInfo(ErrorCodes.API_RECORD_NOT_FOUND, "No records match the request", FALSE)
 @@ 802 :> ErrorInfo(ErrorCodes.AUTH_SERVER_UNAVAILABLE, "Unable to open file", TRUE)
 @@ 952 :> ErrorInfo(ErrorCodes.AUTH_INSUFFICIENT_PRIVILEGES, "Insufficient access privileges", FALSE)

UnknownError == ErrorInfo(ErrorCodes.INTERNAL_UNKNOWN, "Unknown error", FALSE)

\* a resolver that consults the transport table first
resolveError_HttpFirst(httpStatus, fmErrorCode) ==
    IF httpStatus \in DOMAIN HTTP_ERROR_MAP
    THEN HTTP_ERROR_MAP[httpStatus]
    ELSE IF \E d \in fmErrorCode : d \in DOMAIN FM_ERROR_MAP
         THEN FM_ERROR_MAP[CHOOSE d \in fmErrorCode : TRUE]
         ELSE UnknownError

\* resolveError(httpStatus, fmErrorCode?): fmErrorCode is {} or {d}
resolveError(httpStatus, fmErrorCode) ==
    IF \E d \in fmErrorCode : d \in DOMAIN FM_ERROR_MAP
    THEN FM_ERROR_MAP[CHOOSE d \in fmErrorCode : TRUE]
    ELSE IF httpStatus \in DOMAIN HTTP_ERROR_MAP
         THEN HTTP_ERROR_MAP[httpStatus]
         ELSE UnknownError

\* extractFMErrorCode(responseData): a body is [isObject, messages,
\* response]; messages is a sequence of [code |-> {} or {n}], {} being a
\* code that Number() turns into NaN
extractFMErrorCode(data) ==
    IF ~data.isObject
    THEN {}
    ELSE IF Len(data.messages) > 0
         THEN {c \in data.messages[1].code : c # 0}
         ELSE {}

\* createErrorResponse(httpStatus, fmErrorCode?, context?)
createErrorResponse(httpStatus, fmErrorCode, context) ==
    LET errorInfo == resolveError(httpStatus, fmErrorCode)
    IN  [ success |-> FALSE,
          error   |-> [ code        |-> errorInfo.code,
                        message     |-> errorInfo.message,
                        details     |-> context,
                        fmErrorCode |-> fmErrorCode,
                        retryable   |-> errorInfo.retryable ] ]

\* the smallest key of table whose entry carries errorCode, {} when none
\* does: Object.values lists the entries of integer keys in ascending order
FirstWithCode(table, errorCode) ==
    { k \in DOMAIN table :
        /\ table[k].code = errorCode
        /\ \A h \in DOMAIN table : table[h].code = errorCode => k <= h }

\* an isRetryableError that looks at the domain table only
isRetryableError_DomainOnly(errorCode) ==
    IF FirstWithCode(FM_ERROR_MAP, errorCode) # {}
    THEN FM_ERROR_MAP[CHOOSE k \in FirstWithCode(FM_ERROR_MAP, errorCode) : TRUE].retryable
    ELSE FALSE

\* isRetryableError(errorCode)
isRetryableError(errorCode) ==
    IF FirstWithCode(HTTP_ERROR_MAP, errorCode) # {}
    THEN HTTP_ERROR_MAP[CHOOSE k \in FirstWithCode(HTTP_ERROR_MAP, errorCode) : TRUE].retryable
    ELSE IF FirstWithCode(FM_ERROR_MAP, errorCode) # {}
    THEN FM_ERROR_MAP[CHOOSE k \in FirstWithCode(FM_ERROR_MAP, errorCode) : TRUE].retryable
    ELSE FALSE

(***************************************************************************)
(* The remote system: what one fetch() can end in.                         *)
(***************************************************************************)
\* a JSON body carrying the FileMaker message code c ({} or {n}) and payload r
JsonBody(c, r) == [isObject |-> TRUE, messages |-> <<[code |-> c]>>, response |-> r]

\* a body that is not JSON (response.text())
TextBody == [isObject |-> FALSE, messages |-> <<>>, response |-> {}]

\* fetch resolved with a response
Responded(s, body) == [kind |-> "response", status |-> s, data |-> body]

\* the AbortController fired before fetch resolved
Aborted == [kind |-> "abort", status |-> 0, data |-> TextBody]

\* fetch rejected: no response at all
Rejected == [kind |-> "throw", status |-> 0, data |-> TextBody]

\* response.ok
ResponseOk(o) == o.status >= 200 /\ o.status <= 299

(***************************************************************************)
(* src/api/client.ts                                                       *)
(***************************************************************************)
\* the deadline of a call that names none, in milliseconds
DEFAULT_TIMEOUT == 30000

\* new FileMakerHttpClient(config)
FileMakerHttpClient(config) ==
    [ baseUrl    |-> config.server,
      apiVersion |-> config.apiVersion,
      database   |-> config.database,
      sslVerify  |-> config.sslVerify ]

\* isErrorResponse(response)
isErrorResponse(response) ==
    "success" \in DOMAIN response /\ response.success = FALSE

\* what request() and loginRequest() return once fetch ended in o;
\* context is the details text of an error, timeoutContext that of a timeout
Settle(o, context, timeoutContext) ==
    CASE o.kind = "response" /\ ~ResponseOk(o) ->
            createErrorResponse(o.status, extractFMErrorCode(o.data), context)
      [] o.kind = "response" /\ ResponseOk(o) ->
            [ status   |-> o.status,
              data     |-> o.data.response,
              messages |-> o.data.messages ]
      [] o.kind = "abort" ->
            createErrorResponse(504, {}, timeoutContext)
      [] OTHER ->
            [ success |-> FALSE,
              error   |-> [ code      |-> 1002,
                            message   |-> "fetch failed",
                            details   |-> context,
                            retryable |-> TRUE ] ]

\* request(method, path, token, options) of a client, fetch ending in o
request(method, path, o) ==
    Settle(o, <<method, " ">> \o path, <<"Timeout: ", method, " ">> \o path)

\* loginRequest(username, password), fetch ending in o
loginRequest(o) ==
    Settle(o, <<"Login failed">>, <<"Login timeout">>)

\* the record of one awaited remote call: who sent what, and how it ended
\* (body is {} when the request has none)
Call(client, method, path, auth, body, o) ==
    [ client |-> client, method |-> method, path |-> path,
      auth |-> auth, body |-> body, outcome |-> o ]

(***************************************************************************)
(* src/api/session.ts: SessionManager                                      *)
(***************************************************************************)
\* the value of an optional known to be present
The(x) == CHOOSE v \in x : TRUE

\* what a method leaves behind and hands back
Run(st, hc, res, cs) == [state |-> st, httpClient |-> hc, result |-> res, calls |-> cs]

\* hasActiveSession()
hasActiveSession(st) == st # {} /\ The(st).token # ""

\* the guard of logout, validateSession and withSession
NoUsableSession(st, hc) == ~hasActiveSession(st) \/ hc = {} \/ st = {}

\* getSessionAge()
getSessionAge(st, t) ==
    IF st = {} THEN {} ELSE {(t - The(st).info.createdAt) \div 1000}

\* an isSessionExpiringSoon that waits for the timeout itself
isSessionExpiringSoon_AtTimeout(st, t, bufferSeconds) ==
    IF st = {} THEN FALSE
    ELSE IF getSessionAge(st, t) = {} THEN FALSE
    ELSE The(getSessionAge(st, t)) >= The(st).config.sessionTimeout

\* isSessionExpiringSoon(bufferSeconds) at time t
isSessionExpiringSoon(st, t, bufferSeconds) ==
    IF st = {} THEN FALSE
    ELSE IF getSessionAge(st, t) = {} THEN FALSE
    ELSE The(getSessionAge(st, t)) >= The(st).config.sessionTimeout - bufferSeconds

\* clearSession() that forgets to drop the client
clearSession_KeepsClient(st, hc) == [state |-> {}, httpClient |-> hc]

\* clearSession()
clearSession(st, hc) == [state |-> {}, httpClient |-> {}]

\* the error logout() returns without a session
LogoutNoSession ==
    [ success |-> FALSE,
      error   |-> [ code      |-> ErrorCodes.SESSION_INVALID,
                    message   |-> "No active session",
                    retryable |-> FALSE ] ]

\* the error withSession() returns without a session
WithSessionNoSession ==
    [ success |-> FALSE,
      error   |-> [ code      |-> ErrorCodes.SESSION_INVALID,
                    message   |-> "No active session. Please login first.",
                    details   |-> <<"withSession called without active session">>,
                    retryable |-> FALSE ] ]

\* logout() that returns every error response of the delete-session call
logout_NoExpiredCase(st, hc, o) ==
    IF NoUsableSession(st, hc)
    THEN Run(st, hc, LogoutNoSession, <<>>)
    ELSE LET token    == The(st).token
             path     == <<"/sessions/", token>>
             response == request("DELETE", path, o)
             cleared  == clearSession(st, hc)
         IN  Run(cleared.state, cleared.httpClient,
                 IF isErrorResponse(response)
                 THEN response
                 ELSE [success |-> TRUE, message |-> "Logged out successfully"],
                 <<Call(The(hc), "DELETE", path, token, {}, o)>>)

\* logout() that clears the session only when the delete-session call succeeded
logout_ClearsOnSuccessOnly(st, hc, o) ==
    IF NoUsableSession(st, hc)
    THEN Run(st, hc, LogoutNoSession, <<>>)
    ELSE LET token    == The(st).token
             path     == <<"/sessions/", token>>
             response == request("DELETE", path, o)
             cleared  == IF isErrorResponse(response)
                         THEN [state |-> st, httpClient |-> hc]
                         ELSE clearSession(st, hc)
         IN  Run(cleared.state, cleared.httpClient,
                 IF isErrorResponse(response)
                 THEN IF response.error.code = ErrorCodes.SESSION_EXPIRED
                      THEN [success |-> TRUE, message |-> "Session already expired"]
                      ELSE response
                 ELSE [success |-> TRUE, message |-> "Logged out successfully"],
                 <<Call(The(hc), "DELETE", path, token, {}, o)>>)

\* logout(), the delete-session fetch ending in o
logout(st, hc, o) ==
    IF NoUsableSession(st, hc)
    THEN Run(st, hc, LogoutNoSession, <<>>)
    ELSE LET token    == The(st).token
             path     == <<"/sessions/", token>>
             response == request("DELETE", path, o)
             cleared  == clearSession(st, hc)
         IN  Run(cleared.state, cleared.httpClient,
                 IF isErrorResponse(response)
                 THEN IF response.error.code = ErrorCodes.SESSION_EXPIRED
                      THEN [success |-> TRUE, message |-> "Session already expired"]
                      ELSE response
                 ELSE [success |-> TRUE, message |-> "Logged out successfully"],
                 <<Call(The(hc), "DELETE", path, token, {}, o)>>)

\* the login request as login() sends it
LoginCall(config, o) ==
    Call(FileMakerHttpClient(config), "POST", <<"/sessions">>,
         <<"Basic ", config.username, ":", config.password>>, {}, o)

\* login(config) that returns the error of a failed teardown
login_ReturnsTeardownError(st, hc, config, o1, o2, t) ==
    LET pre == IF hasActiveSession(st) THEN logout(st, hc, o1)
               ELSE Run(st, hc, [success |-> TRUE], <<>>)
        response == loginRequest(o2)
        sessionInfo == [ database  |-> config.database,
                         server    |-> config.server,
                         createdAt |-> t ]
    IN  IF isErrorResponse(pre.result)
        THEN pre
        ELSE IF isErrorResponse(response)
        THEN Run(pre.state, {}, response, pre.calls \o <<LoginCall(config, o2)>>)
        ELSE Run({[ token  |-> The(response.data).token,
                    info   |-> sessionInfo,
                    config |-> config ]},
                 {FileMakerHttpClient(config)},
                 [success |-> TRUE, sessionInfo |-> sessionInfo],
                 pre.calls \o <<LoginCall(config, o2)>>)

\* a login that puts the previous session back when the new login fails
login_RestoresOnFailure(st, hc, config, o1, o2, t) ==
    LET pre == IF hasActiveSession(st) THEN logout(st, hc, o1)
               ELSE Run(st, hc, [success |-> TRUE], <<>>)
        response == loginRequest(o2)
        sessionInfo == [ database  |-> config.database,
                         server    |-> config.server,
                         createdAt |-> t ]
    IN  IF isErrorResponse(response)
        THEN Run(st, hc, response, pre.calls \o <<LoginCall(config, o2)>>)
        ELSE Run({[ token  |-> The(response.data).token,
                    info   |-> sessionInfo,
                    config |-> config ]},
                 {FileMakerHttpClient(config)},
                 [success |-> TRUE, sessionInfo |-> sessionInfo],
                 pre.calls \o <<LoginCall(config, o2)>>)

\* login(config) at time t: o1 ends the teardown's fetch (when there is
\* one), o2 the login fetch
login(st, hc, config, o1, o2, t) ==
    LET pre == IF hasActiveSession(st) THEN logout(st, hc, o1)
               ELSE Run(st, hc, [success |-> TRUE], <<>>)
        response == loginRequest(o2)
        sessionInfo == [ database  |-> config.database,
                         server    |-> config.server,
                         createdAt |-> t ]
    IN  IF isErrorResponse(response)
        THEN Run(pre.state, {}, response, pre.calls \o <<LoginCall(config, o2)>>)
        ELSE Run({[ token  |-> The(response.data).token,
                    info   |-> sessionInfo,
                    config |-> config ]},
                 {FileMakerHttpClient(config)},
                 [success |-> TRUE, sessionInfo |-> sessionInfo],
                 pre.calls \o <<LoginCall(config, o2)>>)

\* validateSession() that drops the session on every failed probe
validateSession_ClearsOnAnyError(st, hc, o, t) ==
    IF NoUsableSession(st, hc)
    THEN Run(st, hc, [valid |-> FALSE, message |-> "No active session"], <<>>)
    ELSE LET token    == The(st).token
             response == request("GET", <<"/layouts">>, o)
             probe    == <<Call(The(hc), "GET", <<"/layouts">>, token, {}, o)>>
         IN  IF isErrorResponse(response)
             THEN Run({}, {},
                      [valid |-> FALSE, message |-> response.error.message], probe)
             ELSE Run(st, hc,
                      [ valid      |-> TRUE,
                        message    |-> "Session is valid",
                        sessionAge |-> getSessionAge(st, t) ],
                      probe)

\* validateSession() at time t, the probe's fetch ending in o
validateSession(st, hc, o, t) ==
    IF NoUsableSession(st, hc)
    THEN Run(st, hc, [valid |-> FALSE, message |-> "No active session"], <<>>)
    ELSE LET token    == The(st).token
             response == request("GET", <<"/layouts">>, o)
             probe    == <<Call(The(hc), "GET", <<"/layouts">>, token, {}, o)>>
         IN  IF isErrorResponse(response)
             THEN IF response.error.code = ErrorCodes.SESSION_EXPIRED
                  THEN LET cleared == clearSession(st, hc)
                       IN  Run(cleared.state, cleared.httpClient,
                               [ valid   |-> FALSE,
                                 message |-> "Session expired or invalid" ],
                               probe)
                  ELSE Run(st, hc,
                           [valid |-> FALSE, message |-> response.error.message],
                           probe)
             ELSE Run(st, hc,
                      [ valid      |-> TRUE,
                        message    |-> "Session is valid",
                        sessionAge |-> getSessionAge(st, t) ],
                      probe)

\* withSession(requestFn) that calls requestFn without looking at the session
withSession_NoGuard(st, hc, fn, o) ==
    LET token == IF st = {} THEN "" ELSE The(st).token
    IN  Run(st, hc, request(fn.method, fn.path, o),
            <<Call(hc, fn.method, fn.path, token, fn.body, o)>>)

\* a withSession that drops the session whenever fn returns an error
withSession_ClearsOnError(st, hc, fn, o) ==
    IF NoUsableSession(st, hc)
    THEN Run(st, hc, WithSessionNoSession, <<>>)
    ELSE IF isErrorResponse(request(fn.method, fn.path, o))
    THEN Run({}, {}, request(fn.method, fn.path, o),
             <<Call(The(hc), fn.method, fn.path, The(st).token, fn.body, o)>>)
    ELSE Run(st, hc, request(fn.method, fn.path, o),
             <<Call(The(hc), fn.method, fn.path, The(st).token, fn.body, o)>>)

\* withSession(requestFn): requestFn is one client call [method, path, body],
\* as in every caller, and its fetch ends in o
withSession(st, hc, fn, o) ==
    IF NoUsableSession(st, hc)
    THEN Run(st, hc, WithSessionNoSession, <<>>)
    ELSE Run(st, hc, request(fn.method, fn.path, o),
             <<Call(The(hc), fn.method, fn.path, The(st).token, fn.body, o)>>)

(***************************************************************************)
(* The environment of the session manager.                                 *)
(***************************************************************************)
\* tokens the remote system may issue (a login response may carry "")
Tokens == {"", "tokA", "tokB"}

\* the token issued instead in the second run of a pair of runs
Twin == ("" :> "") @@ ("tokA" :> "tokC") @@ ("tokB" :> "tokD")

\* the session state of the second run
TwinState(st) == {[s EXCEPT !.token = Twin[s.token]] : s \in st}

\* configurations that pass validation
Configs ==
    { [ server |-> "https://fm.example.com", database |-> db,
        username |-> "user", password |-> "secret",
        apiVersion |-> "vLatest", sslVerify |-> TRUE, sessionTimeout |-> 840 ]
      : db \in {"DB1", "DB2"} }

\* how the fetch of an authenticated call may end
Outcomes ==
    {Responded(200, JsonBody({0}, {[payload |-> "data"]}))}
    \cup {Responded(401, JsonBody(c, {})) : c \in {{}, {401}, {952}}}
    \cup {Responded(500, JsonBody({}, {}))}
    \cup {Aborted, Rejected}

\* how the fetch of a login request may end
LoginOutcomes ==
    {Responded(200, JsonBody({0}, {[token |-> t]})) : t \in Tokens}
    \cup {Responded(401, JsonBody({212}, {})), Responded(500, JsonBody({}, {})),
          Aborted, Rejected}

\* the same login outcome in the second run
TwinLogin(o) ==
    [o EXCEPT !.data.response = {[p EXCEPT !.token = Twin[p.token]] : p \in @}]

\* the request functions callers hand to withSession
RequestFns ==
    { [method |-> "GET",  path |-> <<"/layouts">>, body |-> {}],
      [method |-> "GET",  path |-> <<"/layouts/", "L1">>, body |-> {}],
      [method |-> "POST", path |-> <<"/layouts/", "L1", "/_find">>,
       body |-> {[query |-> <<>>, limit |-> 100]}] }

(***************************************************************************)
(* The session manager as a state machine: one action per method, run one  *)
(* at a time.                                                              *)
(***************************************************************************)
SessionInit ==
    /\ state = {}
    /\ httpClient = {}
    /\ now = 0
    /\ op = [name |-> "none"]
    /\ result = [success |-> TRUE]
    /\ twin = [success |-> TRUE]
    /\ calls = <<>>

Init ==
    /\ SessionInit
    /\ arg = <<>>
    /\ ret = {}

\* a method returned r (r2 in the second run); o names it and its arguments
Returned(o, r, r2) ==
    /\ state' = r.state
    /\ httpClient' = r.httpClient
    /\ result' = r.result
    /\ twin' = r2.result
    /\ calls' = r.calls
    /\ op' = o @@ [pre |-> [state |-> state, httpClient |-> httpClient], at |-> now]
    /\ UNCHANGED <<now, arg, ret>>

Login ==
    \E config \in Configs, o1 \in Outcomes, o2 \in LoginOutcomes :
        Returned([name |-> "login", config |-> config, fetch |-> o2,
                  teardown |-> IF hasActiveSession(state) THEN {o1} ELSE {}],
                 login(state, httpClient, config, o1, o2, now),
                 login(TwinState(state), httpClient, config, o1, TwinLogin(o2), now))

Logout ==
    \E o \in Outcomes :
        Returned([name |-> "logout", fetch |-> o],
                 logout(state, httpClient, o),
                 logout(TwinState(state), httpClient, o))

ValidateSession ==
    \E o \in Outcomes :
        Returned([name |-> "validateSession", fetch |-> o],
                 validateSession(state, httpClient, o, now),
                 validateSession(TwinState(state), httpClient, o, now))

WithSession ==
    \E fn \in RequestFns, o \in Outcomes :
        Returned([name |-> "withSession", fn |-> fn, fetch |-> o],
                 withSession(state, httpClient, fn, o),
                 withSession(TwinState(state), httpClient, fn, o))

Tick ==
    /\ now + TickMs <= MaxNow
    /\ now' = now + TickMs
    /\ UNCHANGED <<state, httpClient, op, result, twin, calls, arg, ret>>

\* getSessionAge(): its value goes to ret
GetSessionAge ==
    /\ ret' = getSessionAge(state, now)
    /\ op' = [name |-> "getSessionAge",
              pre |-> [state |-> state, httpClient |-> httpClient], at |-> now]
    /\ calls' = <<>>
    /\ UNCHANGED <<state, httpClient, now, result, twin, arg>>

Next == Login \/ Logout \/ ValidateSession \/ WithSession \/ GetSessionAge \/ Tick

Spec == Init /\ [][Next]_vars

(***************************************************************************)
(* One call of request() or loginRequest() step by step: arg is the call    *)
(* and what the server would answer, op the position of the call, now the   *)
(* clock, result what the call returned.                                    *)
(***************************************************************************)
\* the clock of a call stops here
MaxClock == 50000

\* the clock of a call advances by this much
ClockStep == 10000

\* what the server would answer if given the time
ServerAnswers ==
    { Responded(200, JsonBody({0}, {[payload |-> "data"]})),
      Responded(401, JsonBody({952}, {})),
      Responded(500, TextBody),
      Rejected }

\* the calls tried: options.timeout is absent or 10 seconds
RequestArgs ==
    { [name |-> "request", method |-> fn.method, path |-> fn.path,
       timeout |-> t, server |-> a]
      : fn \in RequestFns, t \in {{}, {10000}}, a \in ServerAnswers }
    \cup { [name |-> "loginRequest", method |-> "POST", path |-> <<"/sessions">>,
            timeout |-> {}, server |-> a] : a \in ServerAnswers }

RequestInit ==
    /\ SessionInit
    /\ arg \in RequestArgs
    /\ ret = {}

\* what the call returns when its fetch and body read ended in o
Returns(o) ==
    IF arg.name = "request" THEN request(arg.method, arg.path, o) ELSE loginRequest(o)

\* the call starts: setTimeout(() => controller.abort(), timeout), then fetch
StartFetch ==
    /\ op.name = "none"
    /\ LET timeout == IF arg.timeout = {} THEN DEFAULT_TIMEOUT ELSE The(arg.timeout)
       IN  op' = [ name      |-> arg.name,
                   at        |-> "fetch",
                   deadline  |-> now + timeout,
                   timeoutId |-> {now + timeout} ]
    /\ UNCHANGED <<state, httpClient, now, result, twin, calls, arg, ret>>

\* fetch resolves once the status line and headers are in: clearTimeout
FetchResolves ==
    /\ op.name # "none" /\ op.at = "fetch"
    /\ now < op.deadline
    /\ arg.server.kind = "response"
    /\ op' = [op EXCEPT !.at = "body", !.timeoutId = {}]
    /\ UNCHANGED <<state, httpClient, now, result, twin, calls, arg, ret>>

\* fetch rejects (no connection): the catch block, clearTimeout
FetchRejects ==
    /\ op.name # "none" /\ op.at = "fetch"
    /\ now < op.deadline
    /\ arg.server.kind = "throw"
    /\ op' = [op EXCEPT !.at = "returned", !.timeoutId = {}]
    /\ result' = Returns(arg.server)
    /\ UNCHANGED <<state, httpClient, now, twin, calls, arg, ret>>

\* the timer is due while still set: controller.abort(), fetch rejects with
\* an AbortError, the catch block
TimeoutFires ==
    /\ op.name # "none" /\ op.timeoutId # {}
    /\ now >= The(op.timeoutId)
    /\ op' = [op EXCEPT !.at = "returned", !.timeoutId = {}]
    /\ result' = Returns(Aborted)
    /\ UNCHANGED <<state, httpClient, now, twin, calls, arg, ret>>

\* response.json() or response.text() resolves, and the call returns
BodyRead ==
    /\ op.name # "none" /\ op.at = "body"
    /\ op' = [op EXCEPT !.at = "returned"]
    /\ result' = Returns(arg.server)
    /\ UNCHANGED <<state, httpClient, now, twin, calls, arg, ret>>

\* time passes while the call waits; a timer that is due fires first
ClockTick ==
    /\ op.name # "none" /\ op.at # "returned"
    /\ IF op.timeoutId = {} THEN TRUE ELSE now < The(op.timeoutId)
    /\ now + ClockStep <= MaxClock
    /\ now' = now + ClockStep
    /\ UNCHANGED <<state, httpClient, op, result, twin, calls, arg, ret>>

RequestNext ==
    StartFetch \/ FetchResolves \/ FetchRejects \/ TimeoutFires \/ BodyRead \/ ClockTick

SpecRequest == RequestInit /\ [][RequestNext]_vars

(***************************************************************************)
(* The session manager growing old: sessions whose timeout is two seconds, *)
(* a clock that runs past it, and isSessionExpiringSoon among the methods. *)
(***************************************************************************)
\* the clock stops here (milliseconds)
MaxAge == 3000

\* a configuration whose sessionTimeout is short enough to be outlived
ShortLivedConfigs ==
    { [ server |-> "https://fm.example.com", database |-> "DB1",
        username |-> "user", password |-> "secret",
        apiVersion |-> "vLatest", sslVerify |-> TRUE, sessionTimeout |-> 2 ] }

\* the buffers asked about: none, one second, and the default
BufferInputs == {0, 1, 60}

ShortLivedLogin ==
    \E config \in ShortLivedConfigs, o2 \in LoginOutcomes :
        Returned([name |-> "login", config |-> config, fetch |-> o2,
                  teardown |-> IF hasActiveSession(state) THEN {Rejected} ELSE {}],
                 login(state, httpClient, config, Rejected, o2, now),
                 login(TwinState(state), httpClient, config, Rejected, TwinLogin(o2), now))

\* isSessionExpiringSoon(bufferSeconds): its value goes to ret
IsSessionExpiringSoon ==
    \E bufferSeconds \in BufferInputs :
        /\ ret' = {isSessionExpiringSoon(state, now, bufferSeconds)}
        /\ op' = [name |-> "isSessionExpiringSoon", bufferSeconds |-> bufferSeconds,
                  pre |-> [state |-> state, httpClient |-> httpClient], at |-> now]
        /\ calls' = <<>>
        /\ UNCHANGED <<state, httpClient, now, result, twin, arg>>

Age ==
    /\ now + TickMs <= MaxAge
    /\ now' = now + TickMs
    /\ UNCHANGED <<state, httpClient, op, result, twin, calls, arg, ret>>

AgingNext ==
    ShortLivedLogin \/ Logout \/ ValidateSession \/ WithSession
        \/ IsSessionExpiringSoon \/ Age

SpecAging == Init /\ [][AgingNext]_vars

(***************************************************************************)
(* The resolver as a function of its inputs.                               *)
(***************************************************************************)
\* transport statuses tried: every key of the table and three that have none
StatusInputs == DOMAIN HTTP_ERROR_MAP \cup {200, 418, 999}

\* domain codes tried: absent, every key of the table and two that have none
FmInputs == {{}} \cup {{d} : d \in DOMAIN FM_ERROR_MAP \cup {301, 999}}

ResolveInit ==
    /\ SessionInit
    /\ arg \in [httpStatus : StatusInputs, fmErrorCode : FmInputs]
    /\ ret = {}

ResolveError ==
    /\ ret = {}
    /\ ret' = {resolveError(arg.httpStatus, arg.fmErrorCode)}
    /\ UNCHANGED <<state, httpClient, now, op, result, twin, calls, arg>>

ResolveNext == ResolveError

SpecResolve == ResolveInit /\ [][ResolveNext]_vars

(***************************************************************************)
(* src/analyzers/global-searcher.ts: the cross-layout search.  Message     *)
(* texts are given in English.                                             *)
(***************************************************************************)
DEFAULT_MAX_FIELDS_PER_LAYOUT == 50

DEFAULT_MAX_RECORDS_PER_LAYOUT == 100

ABSOLUTE_MAX_RECORDS == 1000

SEARCHABLE_RESULT_TYPES == {"text", "number", "date", "time", "timestamp"}

GLOBAL_SEARCH_LIMITATIONS ==
    << "layouts are searched one after another, many layouts are slow",
       "binary/container fields are not searched",
       "searching calculation fields is optional (off by default)",
       "search operators follow the FileMaker find grammar" >>

GLOBAL_SEARCH_DISCLAIMER ==
    "partial-match search of text fields of the given layouts, not of all data"

\* a ?? b
OrElse(a, b) == IF a = {} THEN b ELSE The(a)

\* Math.min(a, b)
Min(a, b) == IF a <= b THEN a ELSE b

\* encodeURIComponent(name): the layout names of the model hold unreserved
\* characters only, which it leaves as they are
encodeURIComponent(name) == name

\* s.trim(), for the texts of the model: " " is the only one with blanks
Trim(s) == IF s = " " THEN "" ELSE s

\* w.toLowerCase(), for the words of the model
ToLowerCase(w) == IF w = "ABC" THEN "abc" ELSE w

\* String(value).toLowerCase().includes(text.toLowerCase()), a value being
\* the tuple of its words
Includes(value, text) ==
    \E i \in DOMAIN value : ToLowerCase(value[i]) = ToLowerCase(text)

\* an isSearchableField that looks at the result type only
isSearchableField_ResultTypeOnly(field, includeCalculations) ==
    field.result \in SEARCHABLE_RESULT_TYPES

\* isSearchableField(field, includeCalculations)
isSearchableField(field, includeCalculations) ==
    IF field.result \notin SEARCHABLE_RESULT_TYPES
    THEN FALSE
    ELSE IF field.type = "calculation" /\ ~includeCalculations
    THEN FALSE
    ELSE IF field.type = "summary"
    THEN FALSE
    ELSE TRUE

\* a buildSearchValue that applies the mode to every field type
buildSearchValue_AnyType(searchText, searchMode, fieldResultType) ==
    CASE searchMode = "exact"      -> <<"==", searchText>>
      [] searchMode = "startsWith" -> <<searchText, "*">>
      [] OTHER                     -> <<"*", searchText, "*">>

\* buildSearchValue(searchText, searchMode, fieldResultType)
buildSearchValue(searchText, searchMode, fieldResultType) ==
    IF fieldResultType # "text"
    THEN <<searchText>>
    ELSE CASE searchMode = "exact"      -> <<"==", searchText>>
           [] searchMode = "startsWith" -> <<searchText, "*">>
           [] OTHER                     -> <<"*", searchText, "*">>

\* what searchLayout returns, with the remote calls it awaited
LayoutOutcome(res, skipped, reason, cs) ==
    [result |-> res, skipped |-> skipped, skipReason |-> reason, calls |-> cs]

\* metadata.fieldMetaData.filter(isSearchableField).slice(0, maxFieldsPerLayout)
SearchableFields(metadata, options) ==
    LET searchable(f) == isSearchableField(f, options.includeCalculations)
        filtered == SelectSeq(metadata.fieldMetaData, searchable)
    IN  SubSeq(filtered, 1, Min(options.maxFieldsPerLayout, Len(filtered)))

\* searchableFields.map((f) => f.name)
FieldNames(searchableFields) ==
    [i \in DOMAIN searchableFields |-> searchableFields[i].name]

\* the body of the find request: one condition per field, and the limit
SearchRequestBody(searchableFields, searchText, options) ==
    [ query |-> [ i \in DOMAIN searchableFields |->
                    [ field |-> searchableFields[i].name,
                      value |-> buildSearchValue(searchText, options.searchMode,
                                                 searchableFields[i].result) ] ],
      limit |-> options.maxRecordsPerLayout ]

\* the field names of firstRecord whose value contains the search text
MatchedFields(searchableFields, firstRecord, searchText) ==
    LET hit(f) ==
            /\ f.name \in DOMAIN firstRecord.fieldData
            /\ firstRecord.fieldData[f.name] # {}
            /\ Includes(The(firstRecord.fieldData[f.name]), searchText)
    IN  FieldNames(SelectSeq(searchableFields, hit))

\* part 3 of searchLayout: the rows found, as a LayoutSearchResult
FormatResult(layoutName, searchText, searchableFields, found) ==
    LET matchedFields ==
            IF Len(found) > 0
            THEN MatchedFields(searchableFields, found[1], searchText)
            ELSE <<>>
    IN  [ layout         |-> layoutName,
          recordCount    |-> Len(found),
          records        |-> [ i \in DOMAIN found |->
                                 [ recordId  |-> found[i].recordId,
                                   fieldData |-> found[i].fieldData ] ],
          searchedFields |-> FieldNames(searchableFields),
          matchedFields  |-> IF Len(matchedFields) > 0
                             THEN {matchedFields} ELSE {} ]

\* a searchLayout that skips the layout on every error of the find call
AfterFind_SkipsNoRecords(layoutName, searchText, searchableFields, searchResult, cs) ==
    IF isErrorResponse(searchResult)
    THEN LayoutOutcome({}, TRUE,
             <<"search error: ", searchResult.error.message>>, cs)
    ELSE IF "data" \notin DOMAIN searchResult
    THEN LayoutOutcome({}, TRUE, <<"unexpected response format">>, cs)
    ELSE LayoutOutcome(
             {FormatResult(layoutName, searchText, searchableFields,
                           The(searchResult.data).data)},
             FALSE, <<>>, cs)

\* searchLayout once the find call has returned searchResult
AfterFind(layoutName, searchText, searchableFields, searchResult, cs) ==
    IF isErrorResponse(searchResult)
    THEN IF "fmErrorCode" \in DOMAIN searchResult.error
            /\ searchResult.error.fmErrorCode = {401}
         THEN LayoutOutcome(
                  {[ layout         |-> layoutName,
                     recordCount    |-> 0,
                     records        |-> <<>>,
                     searchedFields |-> FieldNames(searchableFields),
                     matchedFields  |-> {} ]},
                  FALSE, <<>>, cs)
         ELSE LayoutOutcome({}, TRUE,
                  <<"search error: ", searchResult.error.message>>, cs)
    ELSE IF "data" \notin DOMAIN searchResult
    THEN LayoutOutcome({}, TRUE, <<"unexpected response format">>, cs)
    ELSE LayoutOutcome(
             {FormatResult(layoutName, searchText, searchableFields,
                           The(searchResult.data).data)},
             FALSE, <<>>, cs)

\* part 2 of searchLayout: the find call on the fields chosen; o ends its
\* fetch, cs are the calls awaited before it
FindRecords(st, hc, layoutName, searchText, options, searchableFields, o, cs) ==
    LET findFn == [ method |-> "POST",
                    path   |-> <<"/layouts/", encodeURIComponent(layoutName),
                                 "/_find">>,
                    body   |-> {SearchRequestBody(searchableFields, searchText,
                                                  options)} ]
        findRun == withSession(st, hc, findFn, o)
    IN  AfterFind(layoutName, searchText, searchableFields,
                  findRun.result, cs \o findRun.calls)

\* searchLayout once the metadata call has returned metadataResult
AfterMetadata(st, hc, layoutName, searchText, options, sc, metadataResult, cs) ==
    IF isErrorResponse(metadataResult)
    THEN LayoutOutcome({}, TRUE,
             <<"metadata error: ", metadataResult.error.message>>, cs)
    ELSE IF "data" \notin DOMAIN metadataResult
    THEN LayoutOutcome({}, TRUE, <<"unexpected response format">>, cs)
    ELSE LET searchableFields ==
                 SearchableFields(The(metadataResult.data), options)
         IN  IF Len(searchableFields) = 0
             THEN LayoutOutcome({}, TRUE, <<"no searchable fields">>, cs)
             ELSE FindRecords(st, hc, layoutName, searchText, options,
                              searchableFields, sc.find, cs)

\* searchLayout(layoutName, searchText, options): sc.meta ends the fetch of
\* the metadata call, sc.find that of the find call
searchLayout(st, hc, layoutName, searchText, options, sc) ==
    LET metaFn == [ method |-> "GET",
                    path   |-> <<"/layouts/", encodeURIComponent(layoutName)>>,
                    body   |-> {} ]
        metaRun == withSession(st, hc, metaFn, sc.meta)
    IN  AfterMetadata(st, hc, layoutName, searchText, options, sc,
                      metaRun.result, metaRun.calls)

\* results, skippedLayouts and totalRecordsFound before the loop, with the
\* calls awaited
NoLayoutsDone ==
    [results |-> <<>>, skippedLayouts |-> <<>>, totalRecordsFound |-> 0,
     calls |-> <<>>]

\* a loop body that leaves the loop at the first layout it has to skip
LoopBody_StopsAtSkip(acc, layoutName, r) ==
    IF acc.skippedLayouts # <<>>
    THEN acc
    ELSE IF r.skipped
    THEN [acc EXCEPT !.skippedLayouts = Append(@, layoutName),
                     !.calls = @ \o r.calls]
    ELSE [acc EXCEPT !.results = Append(@, The(r.result)),
                     !.totalRecordsFound = @ + The(r.result).recordCount,
                     !.calls = @ \o r.calls]

\* the body of the for loop of globalSearchData, r being what searchLayout
\* returned for layoutName
LoopBody(acc, layoutName, r) ==
    IF r.skipped
    THEN [acc EXCEPT !.skippedLayouts = Append(@, layoutName),
                     !.calls = @ \o r.calls]
    ELSE IF r.result # {}
    THEN [acc EXCEPT !.results = Append(@, The(r.result)),
                     !.totalRecordsFound = @ + The(r.result).recordCount,
                     !.calls = @ \o r.calls]
    ELSE [acc EXCEPT !.calls = @ \o r.calls]

\* the for loop of globalSearchData over layouts 1..n
RECURSIVE SearchLayouts(_, _, _, _, _, _)
SearchLayouts(st, hc, input, options, scen, n) ==
    IF n = 0
    THEN NoLayoutsDone
    ELSE LoopBody(SearchLayouts(st, hc, input, options, scen, n - 1),
                  input.layouts[n],
                  searchLayout(st, hc, input.layouts[n], input.searchText,
                               options, scen[n]))

\* input.options?.[name] ?? default
Given(input, name, default) ==
    IF input.options = {} THEN default
    ELSE OrElse(The(input.options)[name], default)

\* options whose record limit is the one asked for, however large
EffectiveOptions_NoCap(input) ==
    [ maxFieldsPerLayout  |-> Given(input, "maxFieldsPerLayout",
                                    DEFAULT_MAX_FIELDS_PER_LAYOUT),
      maxRecordsPerLayout |-> Given(input, "maxRecordsPerLayout",
                                    DEFAULT_MAX_RECORDS_PER_LAYOUT),
      includeCalculations |-> Given(input, "includeCalculations", FALSE),
      searchMode          |-> Given(input, "searchMode", "contains") ]

\* the options of globalSearchData with their defaults
EffectiveOptions(input) ==
    [ maxFieldsPerLayout  |-> Given(input, "maxFieldsPerLayout",
                                    DEFAULT_MAX_FIELDS_PER_LAYOUT),
      maxRecordsPerLayout |-> Min(Given(input, "maxRecordsPerLayout",
                                        DEFAULT_MAX_RECORDS_PER_LAYOUT),
                                  ABSOLUTE_MAX_RECORDS),
      includeCalculations |-> Given(input, "includeCalculations", FALSE),
      searchMode          |-> Given(input, "searchMode", "contains") ]

\* the value globalSearchData returns after the loop
SearchOutput(input, done) ==
    [ success     |-> TRUE,
      searchText  |-> input.searchText,
      results     |-> done.results,
      summary     |->
          [ totalLayouts      |-> Len(input.layouts),
            totalRecordsFound |-> done.totalRecordsFound,
            searchedLayouts   |->
                [i \in DOMAIN done.results |-> done.results[i].layout],
            skippedLayouts    |-> done.skippedLayouts ],
      limitations |-> GLOBAL_SEARCH_LIMITATIONS,
      disclaimer  |-> GLOBAL_SEARCH_DISCLAIMER ]

\* globalSearchData once the loop has ended in done
AfterLoop(st, hc, input, done) ==
    Run(st, hc, SearchOutput(input, done), done.calls)

\* a globalSearchData that does not validate its input
globalSearchData_NoValidation(st, hc, input, scen) ==
    AfterLoop(st, hc, input,
              SearchLayouts(st, hc, input, EffectiveOptions(input), scen,
                            Len(input.layouts)))

\* a globalSearchData that hands the "no session" error to its caller
globalSearchData_RequiresSession(st, hc, input, scen) ==
    IF NoUsableSession(st, hc)
    THEN Run(st, hc, WithSessionNoSession, <<>>)
    ELSE globalSearchData_NoValidation(st, hc, input, scen)

\* globalSearchData(input): scen[i] ends the fetches made for layouts[i]
globalSearchData(st, hc, input, scen) ==
    IF input.searchText = "" \/ Trim(input.searchText) = ""
    THEN Run(st, hc, createErrorResponse(400, {}, <<"search text is empty">>), <<>>)
    ELSE IF Len(input.layouts) = 0
    THEN Run(st, hc, createErrorResponse(400, {}, <<"no layouts to search">>), <<>>)
    ELSE AfterLoop(st, hc, input,
                   SearchLayouts(st, hc, input, EffectiveOptions(input), scen,
                                 Len(input.layouts)))

(***************************************************************************)
(* The environment of the search.                                          *)
(***************************************************************************)
\* longest list of layouts searched
MaxLayouts == 3

LayoutNames == {"A", "B"}

Field(n, t, r, g) == [name |-> n, type |-> t, result |-> r, global |-> g]

\* metadata of a layout that has fields to search
SearchableMeta ==
    [ fieldMetaData |->
        << Field("Name",  "normal",      "text",      FALSE),
           Field("Qty",   "normal",      "number",    FALSE),
           Field("Photo", "normal",      "container", FALSE),
           Field("gNote", "normal",      "text",      TRUE),
           Field("Total", "calculation", "number",    FALSE),
           Field("Sum",   "summary",     "number",    FALSE) >> ]

\* metadata of a layout that has none
UnsearchableMeta ==
    [ fieldMetaData |->
        << Field("Photo", "normal",  "container", FALSE),
           Field("Sum",   "summary", "number",    FALSE) >> ]

\* the rows a find may return
FoundRecord(id, words) ==
    [ recordId  |-> id,
      fieldData |-> [Name |-> {words}, Qty |-> {<<"7">>}, Photo |-> {}] ]

Answered(payload) == Responded(200, JsonBody({0}, {payload}))

\* what may happen to one layout: its metadata call fails; it has no field
\* to search; the find returns one or two rows; the find is answered "no
\* records match" (FileMaker code 401, with HTTP 401 or with HTTP 500); the
\* find is answered HTTP 401 without a FileMaker code
LayoutScenarios ==
    { [meta |-> Responded(500, JsonBody({}, {})), find |-> Rejected],
      [meta |-> Answered(UnsearchableMeta), find |-> Rejected],
      [meta |-> Answered(SearchableMeta),
       find |-> Answered([data |-> <<FoundRecord("1", <<"abc", "def">>)>>])],
      [meta |-> Answered(SearchableMeta),
       find |-> Answered([data |-> <<FoundRecord("1", <<"xyz">>),
                                     FoundRecord("2", <<"ABC">>)>>])],
      [meta |-> Answered(SearchableMeta),
       find |-> Responded(401, JsonBody({401}, {}))],
      [meta |-> Answered(SearchableMeta),
       find |-> Responded(500, JsonBody({401}, {}))],
      [meta |-> Answered(SearchableMeta),
       find |-> Responded(401, JsonBody({}, {}))] }

\* the options a caller may give
SearchOptions ==
    { {},
      {[ maxFieldsPerLayout  |-> {2},
         maxRecordsPerLayout |-> {2000},
         includeCalculations |-> {TRUE},
         searchMode          |-> {"exact"} ]},
      {[ maxFieldsPerLayout  |-> {},
         maxRecordsPerLayout |-> {5},
         includeCalculations |-> {},
         searchMode          |-> {"startsWith"} ]} }

\* lists of n layout names, with what happens to each
SearchCases(n, texts) ==
    { [ input |-> [searchText |-> t, layouts |-> ls, options |-> os],
        scen  |-> sc ] :
      t \in texts, ls \in [1..n -> LayoutNames], os \in SearchOptions,
      sc \in [1..n -> LayoutScenarios] }

\* valid inputs of every length, and inputs that do not pass validation
SearchArgs ==
    UNION {SearchCases(n, {"ABC"}) : n \in 1..MaxLayouts}
    \cup SearchCases(0, {"ABC", "", " "})
    \cup SearchCases(1, {"", " "})

(***************************************************************************)
(* The search as a state machine: the session manager is Absent or has     *)
(* logged in, then globalSearchData runs on the input drawn.               *)
(***************************************************************************)
SearchInit ==
    /\ SessionInit
    /\ arg \in SearchArgs
    /\ ret = {}

\* a login that succeeds, before the search
SearchLogin ==
    /\ ret = {}
    /\ state = {}
    /\ \E config \in Configs, o2 \in {Answered([token |-> "tokA"])} :
          LET r == login(state, httpClient, config, Rejected, o2, now)
          IN  /\ state' = r.state
              /\ httpClient' = r.httpClient
              /\ result' = r.result
              /\ twin' = r.result
              /\ calls' = r.calls
              /\ op' = [name |-> "login", config |-> config, fetch |-> o2,
                        teardown |-> {},
                        pre |-> [state |-> state, httpClient |-> httpClient],
                        at |-> now]
    /\ UNCHANGED <<now, arg, ret>>

GlobalSearchData ==
    /\ ret = {}
    /\ LET r  == globalSearchData(state, httpClient, arg.input, arg.scen)
           r2 == globalSearchData(TwinState(state), httpClient, arg.input, arg.scen)
       IN  /\ result' = r.result
           /\ twin' = r2.result
           /\ calls' = r.calls
           /\ ret' = {r.result}
           /\ state' = r.state
           /\ httpClient' = r.httpClient
           /\ op' = [name |-> "globalSearchData", input |-> arg.input,
                     pre |-> [state |-> state, httpClient |-> httpClient],
                     at |-> now]
    /\ UNCHANGED <<now, arg>>

SearchNext == SearchLogin \/ GlobalSearchData

SpecSearch == SearchInit /\ [][SearchNext]_vars

(***************************************************************************)
(* Strings whose characters matter are tuples of characters.               *)
(***************************************************************************)
\* the upper-case letters, with their lower case
LowerOf ==
    ("A" :> "a") @@ ("B" :> "b") @@ ("C" :> "c") @@ ("D" :> "d") @@ ("E" :> "e") @@
    ("F" :> "f") @@ ("G" :> "g") @@ ("H" :> "h") @@ ("I" :> "i") @@ ("J" :> "j") @@
    ("K" :> "k") @@ ("L" :> "l") @@ ("M" :> "m") @@ ("N" :> "n") @@ ("O" :> "o") @@
    ("P" :> "p") @@ ("Q" :> "q") @@ ("R" :> "r") @@ ("S" :> "s") @@ ("T" :> "t") @@
    ("U" :> "u") @@ ("V" :> "v") @@ ("W" :> "w") @@ ("X" :> "x") @@ ("Y" :> "y") @@
    ("Z" :> "z")

\* s.toLowerCase()
LowerCase(s) ==
    [i \in DOMAIN s |-> IF s[i] \in DOMAIN LowerOf THEN LowerOf[s[i]] ELSE s[i]]

\* s.startsWith(p)
StartsWith(s, p) == Len(s) >= Len(p) /\ SubSeq(s, 1, Len(p)) = p

\* s.endsWith(p)
EndsWith(s, p) == Len(s) >= Len(p) /\ SubSeq(s, Len(s) - Len(p) + 1, Len(s)) = p

(***************************************************************************)
(* src/analyzers/metadata-exporter.ts: the metadata aggregator.  Message   *)
(* texts are given in English.                                             *)
(***************************************************************************)
DATA_API_LIMITATIONS ==
    << "relationship definitions are not available (Data API)",
       "calculation formulas are not available (Data API)",
       "script contents are not available (names only)",
       "table definitions are not available (guessed from layouts)",
       "security privileges are not available",
       "custom functions are not available" >>

\* convertFieldMetadata(fmField): the fields the model keeps of a field
convertFieldMetadata(fmField) ==
    [ name   |-> fmField.name,
      type   |-> fmField.type,
      result |-> fmField.result,
      global |-> fmField.global ]

\* inferRelatedTableName, first step: the name without a "portal_" prefix
WithoutPortalPrefix(portalName) ==
    IF StartsWith(LowerCase(portalName), <<"p", "o", "r", "t", "a", "l", "_">>)
    THEN SubSeq(portalName, 8, Len(portalName))
    ELSE portalName

\* inferRelatedTableName, second step: the name without a "_portal" suffix
WithoutPortalSuffix(tableName) ==
    IF EndsWith(LowerCase(tableName), <<"_", "p", "o", "r", "t", "a", "l">>)
    THEN SubSeq(tableName, 1, Len(tableName) - 7)
    ELSE tableName

\* tableName || portalName
NameOr(tableName, portalName) == IF tableName = <<>> THEN portalName ELSE tableName

\* inferRelatedTableName(portalName)
inferRelatedTableName(portalName) ==
    NameOr(WithoutPortalSuffix(WithoutPortalPrefix(portalName)), portalName)

\* the confidence of inferRelationshipFromPortal
PortalConfidence(inferredTable, portalName) ==
    IF LowerCase(inferredTable) = LowerCase(portalName) THEN "high" ELSE "medium"

\* inferRelationshipFromPortal(layoutName, portalName)
inferRelationshipFromPortal(layoutName, portalName) ==
    [ sourceLayout        |-> layoutName,
      portalName          |-> portalName,
      inferredTargetTable |-> inferRelatedTableName(portalName),
      confidence          |-> PortalConfidence(inferRelatedTableName(portalName),
                                               portalName),
      inferenceMethod     |-> "portal_name" ]

\* the options of exportDatabaseMetadata with their defaults
ExportOptions(input) ==
    [ includeLayouts        |-> Given(input, "includeLayouts", TRUE),
      includeScripts        |-> Given(input, "includeScripts", TRUE),
      includeValueLists     |-> Given(input, "includeValueLists", TRUE),
      includePortalAnalysis |-> Given(input, "includePortalAnalysis", TRUE) ]

\* layouts, inferredRelationships and valueListMap before the loop, with
\* the calls awaited; a Map is the tuple of its entries in insertion order
NothingCollected ==
    [ layouts |-> <<>>, inferredRelationships |-> <<>>, valueListMap |-> <<>>,
      calls |-> <<>> ]

\* a Map whose has() never finds a name
MapHas_Never(map, name) == FALSE

\* valueListMap.has(name)
MapHas(map, name) == \E i \in DOMAIN map : map[i].name = name

\* the loop over Object.entries(metadata.valueLists), up to entry n
RECURSIVE CollectValueLists(_, _, _)
CollectValueLists(map, entries, n) ==
    IF n = 0
    THEN map
    ELSE IF MapHas(CollectValueLists(map, entries, n - 1), entries[n].name)
    THEN CollectValueLists(map, entries, n - 1)
    ELSE Append(CollectValueLists(map, entries, n - 1), entries[n])

\* portals of a layout from Object.entries(metadata.portalMetaData)
PortalsOf(entries) ==
    [ i \in DOMAIN entries |->
        [ name             |-> entries[i].name,
          relatedTableName |-> inferRelatedTableName(entries[i].name),
          fields           |-> [ j \in DOMAIN entries[i].fields |->
                                   convertFieldMetadata(entries[i].fields[j]) ] ] ]

\* the relationships pushed for the portals of a layout
RelationshipsOf(layoutName, entries) ==
    [i \in DOMAIN entries |-> inferRelationshipFromPortal(layoutName, entries[i].name)]

\* the entries of an optional object ({} when it is undefined)
EntriesOf(object) == IF object = {} THEN <<>> ELSE The(object)

\* the body of the loop over layoutNames once the metadata is there
CollectLayout(acc, options, layoutName, metadata, cs) ==
    [ layouts |->
          Append(acc.layouts,
                 [ name    |-> layoutName,
                   fields  |-> [ i \in DOMAIN metadata.fieldMetaData |->
                                   convertFieldMetadata(metadata.fieldMetaData[i]) ],
                   portals |-> PortalsOf(EntriesOf(metadata.portalMetaData)) ]),
      inferredRelationships |->
          IF options.includePortalAnalysis
          THEN acc.inferredRelationships
                   \o RelationshipsOf(layoutName, EntriesOf(metadata.portalMetaData))
          ELSE acc.inferredRelationships,
      valueListMap |->
          IF options.includeValueLists /\ metadata.valueLists # {}
          THEN CollectValueLists(acc.valueListMap, The(metadata.valueLists),
                                 Len(The(metadata.valueLists)))
          ELSE acc.valueListMap,
      calls |-> acc.calls \o cs ]

\* the body of the loop over layoutNames, the metadata call having returned
\* run.result
ExportLayout(acc, options, layoutName, run) ==
    IF isErrorResponse(run.result)
    THEN [acc EXCEPT !.calls = @ \o run.calls]
    ELSE IF "data" \notin DOMAIN run.result
    THEN [acc EXCEPT !.calls = @ \o run.calls]
    ELSE CollectLayout(acc, options, layoutName, The(run.result.data), run.calls)

\* the metadata call of one layout
LayoutMetadataFn(layoutName) ==
    [ method |-> "GET",
      path   |-> <<"/layouts/", encodeURIComponent(layoutName)>>,
      body   |-> {} ]

\* the loop over the listing up to entry n, folders filtered out; scen.meta[i]
\* ends the fetch made for entry i
RECURSIVE ExportLayouts(_, _, _, _, _, _)
ExportLayouts(st, hc, options, listed, scen, n) ==
    IF n = 0
    THEN NothingCollected
    ELSE IF listed[n].isFolder = {TRUE}
    THEN ExportLayouts(st, hc, options, listed, scen, n - 1)
    ELSE ExportLayout(ExportLayouts(st, hc, options, listed, scen, n - 1),
                      options, listed[n].name,
                      withSession(st, hc, LayoutMetadataFn(listed[n].name),
                                  scen.meta[n]))

\* sessionInfo?.[name] || 'unknown'
SessionInfoOr(st, name) == IF st = {} THEN "unknown" ELSE The(st).info[name]

\* the value exportDatabaseMetadata returns at the end, at time t
ExportOutput(st, input, options, acc, scripts, t) ==
    [ success     |-> TRUE,
      format      |-> input.format,
      data        |->
          [ database |-> [ name   |-> SessionInfoOr(st, "database"),
                           server |-> SessionInfoOr(st, "server") ],
            layouts  |-> acc.layouts,
            scripts  |-> scripts,
            valueLists |->
                IF options.includeValueLists /\ Len(acc.valueListMap) > 0
                THEN {acc.valueListMap} ELSE {},
            inferredRelationships |->
                IF options.includePortalAnalysis
                   /\ Len(acc.inferredRelationships) > 0
                THEN {acc.inferredRelationships} ELSE {} ],
      generatedAt |-> t,
      limitations |-> DATA_API_LIMITATIONS ]

\* the scripts that are not folders, as ScriptMetadata
ScriptsOf(listed) ==
    LET isScript(x) == x.isFolder # {TRUE}
        kept == SelectSeq(listed, isScript)
    IN  [i \in DOMAIN kept |-> [name |-> kept[i].name, isAvailable |-> TRUE]]

\* exportDatabaseMetadata once the scripts call has returned run.result
AfterScripts(st, hc, input, options, acc, run, t) ==
    IF isErrorResponse(run.result)
    THEN Run(st, hc, run.result, acc.calls \o run.calls)
    ELSE Run(st, hc,
             ExportOutput(st, input, options, acc,
                          IF "data" \in DOMAIN run.result
                          THEN ScriptsOf(The(run.result.data).scripts)
                          ELSE <<>>,
                          t),
             acc.calls \o run.calls)

\* a scripts step that never fails the whole call
ExportScripts_Tolerant(st, hc, input, options, scen, acc, t) ==
    Run(st, hc, ExportOutput(st, input, options, acc, <<>>, t), acc.calls)

\* parts 3 to 5 of exportDatabaseMetadata, acc being what the loop collected
ExportScripts(st, hc, input, options, scen, acc, t) ==
    IF options.includeScripts
    THEN AfterScripts(st, hc, input, options, acc,
                      withSession(st, hc,
                                  [method |-> "GET", path |-> <<"/scripts">>,
                                   body |-> {}],
                                  scen.scripts),
                      t)
    ELSE Run(st, hc, ExportOutput(st, input, options, acc, <<>>, t), acc.calls)

\* what the loop collected, after the calls awaited before it
After(cs, acc) == [acc EXCEPT !.calls = cs \o @]

\* exportDatabaseMetadata once the listing call has returned run.result
AfterListing(st, hc, input, options, scen, run, t) ==
    IF isErrorResponse(run.result)
    THEN Run(st, hc, run.result, run.calls)
    ELSE IF "data" \notin DOMAIN run.result
    THEN Run(st, hc,
             createErrorResponse(500, {},
                 <<"Unexpected response format for layouts">>),
             run.calls)
    ELSE ExportScripts(st, hc, input, options, scen,
             After(run.calls,
                   ExportLayouts(st, hc, options,
                                 The(run.result.data).layouts, scen,
                                 Len(The(run.result.data).layouts))),
             t)

\* exportDatabaseMetadata with its options settled
ExportWith(st, hc, input, options, scen, t) ==
    IF options.includeLayouts
    THEN AfterListing(st, hc, input, options, scen,
                      withSession(st, hc,
                                  [method |-> "GET", path |-> <<"/layouts">>,
                                   body |-> {}],
                                  scen.list),
                      t)
    ELSE ExportScripts(st, hc, input, options, scen, NothingCollected, t)

\* exportDatabaseMetadata(input) at time t: scen.list ends the fetch of the
\* listing, scen.meta[i] that of the metadata of entry i, scen.scripts that
\* of the script list
exportDatabaseMetadata(st, hc, input, scen, t) ==
    ExportWith(st, hc, input, ExportOptions(input), scen, t)

(***************************************************************************)
(* src/analyzers/relationship-inferrer.ts: foreign keys and relationships  *)
(* guessed from names.  Names are tuples of characters.                    *)
(***************************************************************************)
\* [A-Z]
UpperCaseLetters ==
    { "A", "B", "C", "D", "E", "F", "G", "H", "I", "J", "K", "L", "M",
      "N", "O", "P", "Q", "R", "S", "T", "U", "V", "W", "X", "Y", "Z" }

\* s has [Ii][Dd] at positions i and i + 1
IdAt(s, i) == s[i] \in {"I", "i"} /\ s[i + 1] \in {"D", "d"}

\* /^(.+)_[Ii][Dd]$/: match[1], or {} when the name does not match
SuffixUnderscoreId(s) ==
    IF Len(s) >= 4 /\ s[Len(s) - 2] = "_" /\ IdAt(s, Len(s) - 1)
    THEN {SubSeq(s, 1, Len(s) - 3)}
    ELSE {}

\* the rest of s after its first k characters matches ([A-Z]?[Ii][Dd])$
CamelIdAfter(s, k) ==
    \/ Len(s) - k = 2 /\ IdAt(s, k + 1)
    \/ Len(s) - k = 3 /\ s[k + 1] \in UpperCaseLetters /\ IdAt(s, k + 2)

\* /^(.+?)([A-Z]?[Ii][Dd])$/: match[1], the shortest prefix the lazy group
\* can take
SuffixCamelId(s) ==
    IF \E k \in 1..Len(s) : CamelIdAfter(s, k)
    THEN {SubSeq(s, 1, CHOOSE k \in 1..Len(s) :
                          /\ CamelIdAfter(s, k)
                          /\ \A h \in 1..(k - 1) : ~CamelIdAfter(s, h))}
    ELSE {}

\* /^[Ff][Kk]_(.+)$/
PrefixFk(s) ==
    IF Len(s) >= 4 /\ s[1] \in {"F", "f"} /\ s[2] \in {"K", "k"} /\ s[3] = "_"
    THEN {SubSeq(s, 4, Len(s))}
    ELSE {}

\* /^[Ii][Dd]_(.+)$/
PrefixId(s) ==
    IF Len(s) >= 4 /\ IdAt(s, 1) /\ s[3] = "_"
    THEN {SubSeq(s, 4, Len(s))}
    ELSE {}

\* extractTable(fieldName.match(pattern)) for the k-th of FOREIGN_KEY_PATTERNS
FOREIGN_KEY_PATTERNS(k, s) ==
    CASE k = 1 -> SuffixUnderscoreId(s)
      [] k = 2 -> SuffixCamelId(s)
      [] k = 3 -> PrefixFk(s)
      [] OTHER -> PrefixId(s)

\* the number of FOREIGN_KEY_PATTERNS
PatternCount == 4

INFERENCE_DISCLAIMER ==
    "guessed from field names and portals; may differ from the real relationship definitions; verify in FileMaker Pro"

\* a confidence that looks at the name only
ForeignKeyConfidence_NameOnly(fieldName, resultType) ==
    IF EndsWith(LowerCase(fieldName), <<"_", "i", "d">>) THEN "high" ELSE "medium"

\* the confidence inferForeignKeyFromField gives a match
ForeignKeyConfidence(fieldName, resultType) ==
    IF EndsWith(LowerCase(fieldName), <<"_", "i", "d">>) /\ resultType = "number"
    THEN "high"
    ELSE "medium"

\* the loop of inferForeignKeyFromField from pattern k on
RECURSIVE ForeignKeyFrom(_, _)
ForeignKeyFrom(field, k) ==
    IF k > PatternCount
    THEN {}
    ELSE IF FOREIGN_KEY_PATTERNS(k, field.name) # {}
            /\ Len(The(FOREIGN_KEY_PATTERNS(k, field.name))) > 0
    THEN {[ fieldName               |-> field.name,
            inferredReferencedTable |-> The(FOREIGN_KEY_PATTERNS(k, field.name)),
            confidence              |-> ForeignKeyConfidence(field.name, field.result),
            inferenceReason         |-> <<"field name ", field.name,
                                          " matches a foreign key pattern">> ]}
    ELSE ForeignKeyFrom(field, k + 1)

\* inferForeignKeyFromField(field): {} is null
inferForeignKeyFromField(field) ==
    IF field.result # "number" /\ field.result # "text"
    THEN {}
    ELSE ForeignKeyFrom(field, 1)

\* the prefixes inferTableFromPortalName removes
PortalPrefixes ==
    << <<"p", "o", "r", "t", "a", "l", "_">>, <<"P", "o", "r", "t", "a", "l", "_">>,
       <<"P", "O", "R", "T", "A", "L", "_">>, <<"r", "e", "l", "_">>,
       <<"R", "e", "l", "_">>, <<"R", "E", "L", "_">> >>

\* the suffixes inferTableFromPortalName removes
PortalSuffixes ==
    << <<"_", "p", "o", "r", "t", "a", "l">>, <<"_", "P", "o", "r", "t", "a", "l">>,
       <<"_", "P", "O", "R", "T", "A", "L">>, <<"_", "r", "e", "l">>,
       <<"_", "R", "e", "l">>, <<"_", "R", "E", "L">> >>

\* the first loop of inferTableFromPortalName from prefix k on
RECURSIVE WithoutFirstPrefix(_, _)
WithoutFirstPrefix(tableName, k) ==
    IF k > Len(PortalPrefixes)
    THEN tableName
    ELSE IF StartsWith(tableName, PortalPrefixes[k])
    THEN SubSeq(tableName, Len(PortalPrefixes[k]) + 1, Len(tableName))
    ELSE WithoutFirstPrefix(tableName, k + 1)

\* the second loop of inferTableFromPortalName from suffix k on
RECURSIVE WithoutFirstSuffix(_, _)
WithoutFirstSuffix(tableName, k) ==
    IF k > Len(PortalSuffixes)
    THEN tableName
    ELSE IF EndsWith(tableName, PortalSuffixes[k])
    THEN SubSeq(tableName, 1, Len(tableName) - Len(PortalSuffixes[k]))
    ELSE WithoutFirstSuffix(tableName, k + 1)

\* an inferTableFromPortalName without its second loop
inferTableFromPortalName_PrefixOnly(portalName) ==
    NameOr(WithoutFirstPrefix(portalName, 1), portalName)

\* inferTableFromPortalName(portalName)
inferTableFromPortalName(portalName) ==
    NameOr(WithoutFirstSuffix(WithoutFirstPrefix(portalName, 1), 1), portalName)

\* the loop over portalFields of the inferrer's inferRelationshipFromPortal
\* from field k on: the name of the first field that looks like a foreign
\* key, {} when there is none
RECURSIVE FirstForeignKeyField(_, _)
FirstForeignKeyField(portalFields, k) ==
    IF k > Len(portalFields)
    THEN {}
    ELSE IF inferForeignKeyFromField(portalFields[k]) # {}
    THEN {The(inferForeignKeyFromField(portalFields[k])).fieldName}
    ELSE FirstForeignKeyField(portalFields, k + 1)

\* inferRelationshipFromPortal(sourceLayout, portalName, portalFields) of
\* the inferrer (the aggregator has a function of the same name)
inferRelationshipFromPortalFields(sourceLayout, portalName, portalFields) ==
    [ name            |-> <<sourceLayout, " -> ", inferTableFromPortalName(portalName)>>,
      sourceTable     |-> sourceLayout,
      targetTable     |-> inferTableFromPortalName(portalName),
      sourceField     |-> {},
      targetField     |-> FirstForeignKeyField(portalFields, 1),
      type            |-> "one-to-many",
      confidence      |-> PortalConfidence(inferTableFromPortalName(portalName),
                                           portalName),
      inferenceMethod |-> "portal name pattern" ]

\* part 2.1 of inferRelationships: one relationship per portal
PortalRelationships(layout, entries) ==
    [ i \in DOMAIN entries |->
        inferRelationshipFromPortalFields(layout, entries[i].name, entries[i].fields) ]

\* a find that compares the target tables as they are written
HasTarget_ExactCase(relationships, table) ==
    \E i \in DOMAIN relationships : relationships[i].targetTable = table

\* inferredRelationships.find((r) => same target table in lower case)
HasTarget(relationships, table) ==
    \E i \in DOMAIN relationships :
        LowerCase(relationships[i].targetTable) = LowerCase(table)

\* the relationship pushed for a foreign key
ForeignKeyRelationship(layout, fk) ==
    [ name            |-> <<layout, " -> ", fk.inferredReferencedTable>>,
      sourceTable     |-> layout,
      targetTable     |-> fk.inferredReferencedTable,
      sourceField     |-> {fk.fieldName},
      targetField     |-> {},
      type            |-> "unknown",
      confidence      |-> fk.confidence,
      inferenceMethod |-> "field name pattern (foreign key guess)" ]

\* the body of the loop of part 2.2 for a field whose inference is fk
InferFromField(acc, layout, fk) ==
    IF fk = {}
    THEN acc
    ELSE [ inferredRelationships |->
               IF HasTarget(acc.inferredRelationships,
                            The(fk).inferredReferencedTable)
               THEN acc.inferredRelationships
               ELSE Append(acc.inferredRelationships,
                           ForeignKeyRelationship(layout, The(fk))),
           inferredForeignKeys |-> Append(acc.inferredForeignKeys, The(fk)) ]

\* part 2 of inferRelationships, fields 1..n done
RECURSIVE InferFromFields(_, _, _)
InferFromFields(layout, metadata, n) ==
    IF n = 0
    THEN [ inferredRelationships |->
               PortalRelationships(layout, EntriesOf(metadata.portalMetaData)),
           inferredForeignKeys |-> <<>> ]
    ELSE InferFromField(InferFromFields(layout, metadata, n - 1), layout,
                        inferForeignKeyFromField(metadata.fieldMetaData[n]))

\* how many of the relationships and foreign keys have confidence c
ConfidenceCount(inferred, c) ==
    Cardinality({i \in DOMAIN inferred.inferredRelationships :
                    inferred.inferredRelationships[i].confidence = c})
    + Cardinality({i \in DOMAIN inferred.inferredForeignKeys :
                      inferred.inferredForeignKeys[i].confidence = c})

\* the value inferRelationships returns
InferOutput(input, inferred) ==
    [ success               |-> TRUE,
      layout                |-> input.layout,
      inferredRelationships |-> inferred.inferredRelationships,
      inferredForeignKeys   |-> inferred.inferredForeignKeys,
      summary               |->
          [ totalInferred       |-> Len(inferred.inferredRelationships)
                                        + Len(inferred.inferredForeignKeys),
            confidenceBreakdown |->
                [ high   |-> ConfidenceCount(inferred, "high"),
                  medium |-> ConfidenceCount(inferred, "medium"),
                  low    |-> ConfidenceCount(inferred, "low") ] ],
      disclaimer            |-> INFERENCE_DISCLAIMER ]

\* an inferRelationships whose arrays outlive the call: what an earlier
\* call (ret) found stays in front of what this one finds
AfterInferMetadata_Accumulating(st, hc, input, run) ==
    IF isErrorResponse(run.result)
    THEN Run(st, hc, run.result, run.calls)
    ELSE IF "data" \notin DOMAIN run.result
    THEN Run(st, hc,
             createErrorResponse(500, {}, <<"Unexpected response format">>),
             run.calls)
    ELSE Run(st, hc,
             InferOutput(input,
                 [ InferFromFields(input.layout, The(run.result.data),
                                   Len(The(run.result.data).fieldMetaData))
                   EXCEPT !.inferredRelationships =
                       IF ret # {} /\ ~isErrorResponse(The(ret))
                       THEN The(ret).inferredRelationships \o @ ELSE @ ]),
             run.calls)

\* inferRelationships once the metadata call has returned run.result
AfterInferMetadata(st, hc, input, run) ==
    IF isErrorResponse(run.result)
    THEN Run(st, hc, run.result, run.calls)
    ELSE IF "data" \notin DOMAIN run.result
    THEN Run(st, hc,
             createErrorResponse(500, {}, <<"Unexpected response format">>),
             run.calls)
    ELSE Run(st, hc,
             InferOutput(input,
                 InferFromFields(input.layout, The(run.result.data),
                                 Len(The(run.result.data).fieldMetaData))),
             run.calls)

\* inferRelationships(input), the fetch of its metadata call ending in o
inferRelationships(st, hc, input, o) ==
    AfterInferMetadata(st, hc, input,
                       withSession(st, hc, LayoutMetadataFn(input.layout), o))

(***************************************************************************)
(* src/config.ts and handleLogin of src/tools/auth.ts.  A server address   *)
(* is a tuple of characters; an optional setting is {} or {value}.          *)
(***************************************************************************)
HttpScheme == <<"h", "t", "t", "p", ":", "/", "/">>

HttpsScheme == <<"h", "t", "t", "p", "s", ":", "/", "/">>

CONFIG_DEFAULTS == [apiVersion |-> "vLatest", sslVerify |-> TRUE, sessionTimeout |-> 840]

\* String.prototype.trim for the space character
RECURSIVE TrimText(_)
TrimText(s) ==
    IF s = <<>> THEN s
    ELSE IF Head(s) = " " THEN TrimText(Tail(s))
    ELSE IF s[Len(s)] = " " THEN TrimText(SubSeq(s, 1, Len(s) - 1))
    ELSE s

\* while (normalized.endsWith('/')) normalized = normalized.slice(0, -1)
RECURSIVE WithoutTrailingSlashes(_)
WithoutTrailingSlashes(s) ==
    IF EndsWith(s, <<"/">>) THEN WithoutTrailingSlashes(SubSeq(s, 1, Len(s) - 1)) ELSE s

\* normalizeServerUrl(url)
normalizeServerUrl(url) ==
    IF url = {} \/ url = {<<>>} THEN {}
    ELSE LET trimmed == TrimText(The(url))
         IN  IF ~StartsWith(trimmed, HttpScheme) /\ ~StartsWith(trimmed, HttpsScheme)
             THEN {WithoutTrailingSlashes(HttpsScheme \o trimmed)}
             ELSE {WithoutTrailingSlashes(trimmed)}

\* an address that is neither undefined nor the empty string
GivenAddress(x) == x # {} /\ x # {<<>>}

\* a name or password that is neither undefined nor the empty string
GivenText(x) == x # {} /\ x # {""}

\* loadConfigFromEnv(), the three optional variables left unset
loadConfigFromEnv(env) ==
    [ server         |-> normalizeServerUrl(env.FM_SERVER),
      database       |-> IF GivenText(env.FM_DATABASE) THEN env.FM_DATABASE ELSE {},
      username       |-> IF GivenText(env.FM_USERNAME) THEN env.FM_USERNAME ELSE {},
      password       |-> IF GivenText(env.FM_PASSWORD) THEN env.FM_PASSWORD ELSE {},
      apiVersion     |-> {CONFIG_DEFAULTS.apiVersion},
      sslVerify      |-> {CONFIG_DEFAULTS.sslVerify},
      sessionTimeout |-> {CONFIG_DEFAULTS.sessionTimeout} ]

\* the errors validateConfig(config) collects
ConfigErrors(config) ==
    (IF ~GivenAddress(config.server) THEN <<"FM_SERVER is required">>
     ELSE IF StartsWith(The(config.server), HttpScheme)
     THEN <<"FM_SERVER must use HTTPS (SEC-005)">> ELSE <<>>)
    \o (IF ~GivenText(config.database) THEN <<"FM_DATABASE is required">> ELSE <<>>)
    \o (IF ~GivenText(config.username) THEN <<"FM_USERNAME is required">> ELSE <<>>)
    \o (IF ~GivenText(config.password) THEN <<"FM_PASSWORD is required">> ELSE <<>>)

\* the warnings validateConfig(config) collects
ConfigWarnings(config) ==
    (IF config.sslVerify = {FALSE} THEN <<"SEC-006">> ELSE <<>>)
    \o (IF config.sessionTimeout # {} /\ The(config.sessionTimeout) < 60
        THEN <<"FM_SESSION_TIMEOUT is very short">> ELSE <<>>)
    \o (IF config.sessionTimeout # {} /\ The(config.sessionTimeout) > 900
        THEN <<"FM_SESSION_TIMEOUT exceeds 900s">> ELSE <<>>)

\* validateConfig(config)
validateConfig(config) ==
    [ valid    |-> ConfigErrors(config) = <<>>,
      errors   |-> ConfigErrors(config),
      warnings |-> ConfigWarnings(config) ]

\* getConfig: the overrides that are not undefined laid over envConfig, an
\* overriding address normalized
MergedConfig(envConfig, overrides) ==
    [ envConfig EXCEPT
        !.server   = IF GivenAddress(overrides.server)
                     THEN normalizeServerUrl(overrides.server)
                     ELSE IF overrides.server # {} THEN overrides.server ELSE @,
        !.database = IF overrides.database # {} THEN overrides.database ELSE @,
        !.username = IF overrides.username # {} THEN overrides.username ELSE @,
        !.password = IF overrides.password # {} THEN overrides.password ELSE @ ]

\* getConfig: the validation result when invalid, else the configuration
CheckedConfig(merged) ==
    IF ConfigErrors(merged) # <<>> THEN validateConfig(merged)
    ELSE [f \in DOMAIN merged |-> The(merged[f])]

\* getConfig(overrides) in the environment env
getConfig(env, overrides) == CheckedConfig(MergedConfig(loadConfigFromEnv(env), overrides))

\* isValidConfig(result)
isValidConfig(r) == ~("valid" \in DOMAIN r)

\* errors.join(', ')
RECURSIVE JoinErrors(_)
JoinErrors(errors) ==
    IF Len(errors) <= 1 THEN errors
    ELSE <<Head(errors), ", ">> \o JoinErrors(Tail(errors))

\* handleLogin: what it returns once sessionManager.login(config) returned r
LoginOutput(r) ==
    IF ~r.result.success THEN r
    ELSE [r EXCEPT !.result = [ success     |-> TRUE,
                                message     |-> "Login successful",
                                sessionInfo |-> r.result.sessionInfo ]]

\* a handleLogin that drops the session before it looks at the configuration
AfterGetConfig_DropsSession(st, hc, config, o1, o2, t) ==
    IF ~isValidConfig(config)
    THEN Run({}, {},
             [ success |-> FALSE,
               error   |-> [ code      |-> ErrorCodes.INTERNAL_CONFIG_ERROR,
                             message   |-> "Invalid configuration",
                             details   |-> JoinErrors(config.errors),
                             retryable |-> FALSE ] ],
             <<>>)
    ELSE LoginOutput(login(st, hc, config, o1, o2, t))

\* handleLogin from the value of getConfig on
AfterGetConfig(st, hc, config, o1, o2, t) ==
    IF ~isValidConfig(config)
    THEN Run(st, hc,
             [ success |-> FALSE,
               error   |-> [ code      |-> ErrorCodes.INTERNAL_CONFIG_ERROR,
                             message   |-> "Invalid configuration",
                             details   |-> JoinErrors(config.errors),
                             retryable |-> FALSE ] ],
             <<>>)
    ELSE LoginOutput(login(st, hc, config, o1, o2, t))

\* handleLogin(args); o1 and o2 end the fetches of the login it may run
handleLogin(st, hc, env, args, o1, o2, t) ==
    AfterGetConfig(st, hc, getConfig(env, args), o1, o2, t)

(***************************************************************************)
(* The environment of the aggregator.                                      *)
(***************************************************************************)
\* longest listing of layouts
MaxListed == 5

\* the name of the i-th entry of the listing
ListedName(i) == "L" \o ToString(i)

\* a portal entry of Object.entries(metadata.portalMetaData)
Portal(n) == [name |-> n, fields |-> <<Field("Order_ID", "normal", "number", FALSE)>>]

\* a value list entry of Object.entries(metadata.valueLists)
ValueList(n, vs) == [name |-> n, values |-> vs]

\* metadata of a layout with a portal and two value lists
OrdersMeta ==
    [ fieldMetaData  |-> <<Field("Name", "normal", "text", FALSE)>>,
      portalMetaData |-> {<<Portal(<<"O", "r", "d", "e", "r", "s">>)>>},
      valueLists     |-> {<<ValueList("Status", <<"Open", "Closed">>),
                            ValueList("Color", <<"Red">>)>>} ]

\* metadata of a layout whose value list Status has other values
ItemsMeta ==
    [ fieldMetaData  |-> <<Field("Qty", "normal", "number", FALSE)>>,
      portalMetaData |-> {<<Portal(<<"p", "o", "r", "t", "a", "l", "_",
                                     "I", "t", "e", "m", "s">>)>>},
      valueLists     |-> {<<ValueList("Status", <<"New">>),
                            ValueList("Size", <<"S">>)>>} ]

\* metadata of a layout without portals and without value lists
PlainMeta ==
    [ fieldMetaData  |-> <<Field("Photo", "normal", "container", FALSE)>>,
      portalMetaData |-> {},
      valueLists     |-> {} ]

\* what a listed entry may be: a folder, or a layout whose metadata fetch
\* fails or returns one of the metadata above
ListedKinds == {"folder", "fails", "orders", "items", "plain"}

\* how the metadata fetch of an entry of that kind ends
MetadataOutcome(kind) ==
    CASE kind = "orders" -> Answered(OrdersMeta)
      [] kind = "items"  -> Answered(ItemsMeta)
      [] kind = "plain"  -> Answered(PlainMeta)
      [] kind = "fails"  -> Responded(500, JsonBody({}, {}))
      [] OTHER           -> Rejected

\* the listing of entries of the kinds given
Listing(kinds) ==
    [ layouts |-> [ i \in DOMAIN kinds |->
                      [ name     |-> ListedName(i),
                        isFolder |-> IF kinds[i] = "folder" THEN {TRUE} ELSE {} ] ] ]

\* how the script list call may end
ScriptsOutcomes ==
    { Answered([scripts |-> << [name |-> "Sync",  isFolder |-> {}],
                               [name |-> "Admin", isFolder |-> {TRUE}] >>]),
      Responded(500, JsonBody({}, {})) }

\* the options a caller may give
ExportOptionSets ==
    { {},
      {[ includeLayouts        |-> {},
         includeScripts        |-> {FALSE},
         includeValueLists     |-> {FALSE},
         includePortalAnalysis |-> {FALSE} ]},
      {[ includeLayouts        |-> {FALSE},
         includeScripts        |-> {TRUE},
         includeValueLists     |-> {TRUE},
         includePortalAnalysis |-> {} ]} }

\* an input with what happens to the calls made for it
ExportCase(os, lo, mo, so) ==
    [ input |-> [format |-> "json", options |-> os],
      scen  |-> [list |-> lo, meta |-> mo, scripts |-> so] ]

\* listings of up to MaxListed entries of every kind, and listing calls that
\* fail
ExportArgs ==
    { ExportCase(os, Answered(Listing(kinds)),
                 [i \in DOMAIN kinds |-> MetadataOutcome(kinds[i])], so) :
      os \in ExportOptionSets, so \in ScriptsOutcomes,
      kinds \in UNION {[1..n -> ListedKinds] : n \in 0..MaxListed} }
    \cup
    { ExportCase(os, lo, <<>>, so) :
      os \in ExportOptionSets, so \in ScriptsOutcomes,
      lo \in {Responded(500, JsonBody({}, {})), Rejected} }

(***************************************************************************)
(* The aggregator as a state machine: the session manager is Absent or has *)
(* logged in, then exportDatabaseMetadata runs on the input drawn.         *)
(***************************************************************************)
ExportInit ==
    /\ SessionInit
    /\ arg \in ExportArgs
    /\ ret = {}

ExportDatabaseMetadata ==
    /\ ret = {}
    /\ LET r == exportDatabaseMetadata(state, httpClient, arg.input, arg.scen, now)
       IN  /\ result' = r.result
           /\ twin' = r.result
           /\ calls' = r.calls
           /\ ret' = {r.result}
           /\ state' = r.state
           /\ httpClient' = r.httpClient
           /\ op' = [name |-> "exportDatabaseMetadata", input |-> arg.input,
                     pre |-> [state |-> state, httpClient |-> httpClient],
                     at |-> now]
    /\ UNCHANGED <<now, arg>>

ExportNext == SearchLogin \/ ExportDatabaseMetadata

SpecExport == ExportInit /\ [][ExportNext]_vars

(***************************************************************************)
(* inferForeignKeyFromField applied to one field (arg), its value in ret.  *)
(***************************************************************************)
\* longest field name drawn from NameLetters
MaxNameLen == 4

NameLetters == {"i", "I", "d", "D", "f", "F", "k", "K", "_", "x", "A"}

\* the field names of the examples
Customer_ID == <<"C", "u", "s", "t", "o", "m", "e", "r", "_", "I", "D">>

FirstName == <<"F", "i", "r", "s", "t", "N", "a", "m", "e">>

CustomerID == <<"C", "u", "s", "t", "o", "m", "e", "r", "I", "D">>

fk_Order == <<"f", "k", "_", "O", "r", "d", "e", "r">>

id_Order == <<"i", "d", "_", "O", "r", "d", "e", "r">>

Order_ID == <<"O", "r", "d", "e", "r", "_", "I", "D">>

FieldNameInputs ==
    UNION {[1..n -> NameLetters] : n \in 1..MaxNameLen}
    \cup {Customer_ID, FirstName, CustomerID, fk_Order, id_Order, Order_ID}

FieldResultInputs == {"number", "text", "date", "container"}

InferInit ==
    /\ SessionInit
    /\ arg \in {Field(n, "normal", r, FALSE) : n \in FieldNameInputs,
                                               r \in FieldResultInputs}
    /\ ret = {}

InferForeignKeyFromField ==
    /\ ret = {}
    /\ ret' = {inferForeignKeyFromField(arg)}
    /\ UNCHANGED <<state, httpClient, now, op, result, twin, calls, arg>>

InferNext == InferForeignKeyFromField

SpecInfer == InferInit /\ [][InferNext]_vars

(***************************************************************************)
(* The inferrer as a state machine: the session manager is Absent or has   *)
(* logged in, then inferRelationships runs on the input drawn.             *)
(***************************************************************************)
\* most portals, and most fields, of a layout
MaxPortals == 2

Orders == <<"O", "r", "d", "e", "r", "s">>

PortalNameInputs ==
    { Orders,
      <<"O", "r", "d", "e", "r">>,
      <<"p", "o", "r", "t", "a", "l", "_", "O", "r", "d", "e", "r">>,
      <<"I", "t", "e", "m", "s", "_", "r", "e", "l">>,
      <<"O", "R", "D", "E", "R">> }

\* the portals a layout may have: Object.entries(metadata.portalMetaData)
PortalInputs ==
    { [name |-> n, fields |-> fs] :
      n \in PortalNameInputs,
      fs \in { <<>>,
               << Field(FirstName, "normal", "text", FALSE),
                  Field(Customer_ID, "normal", "number", FALSE) >> } }

\* the fields a layout may have
FieldInputs ==
    { Field(Order_ID, "normal", "number", FALSE),
      Field(fk_Order, "normal", "text", FALSE),
      Field(Customer_ID, "normal", "text", FALSE),
      Field(FirstName, "normal", "text", FALSE),
      Field(Order_ID, "normal", "date", FALSE) }

\* the metadata a layout may have
MetadataInputs ==
    { [ fieldMetaData  |-> fs,
        portalMetaData |-> IF ps = <<>> THEN {} ELSE {ps},
        valueLists     |-> {} ] :
      fs \in UNION {[1..n -> FieldInputs] : n \in 0..MaxPortals},
      ps \in UNION {[1..n -> PortalInputs] : n \in 0..MaxPortals} }

RelationsArgs ==
    { [input |-> [layout |-> "Customers", depth |-> {}], scen |-> Answered(m)] :
      m \in MetadataInputs }
    \cup { [input |-> [layout |-> "Customers", depth |-> {2}], scen |-> o] :
           o \in {Responded(404, JsonBody({105}, {})), Rejected} }

RelationsInit ==
    /\ SessionInit
    /\ arg \in RelationsArgs
    /\ ret = {}

InferRelationships ==
    /\ ret = {}
    /\ LET r == inferRelationships(state, httpClient, arg.input, arg.scen)
       IN  /\ result' = r.result
           /\ twin' = r.result
           /\ calls' = r.calls
           /\ ret' = {r.result}
           /\ state' = r.state
           /\ httpClient' = r.httpClient
           /\ op' = [name |-> "inferRelationships", input |-> arg.input,
                     pre |-> [state |-> state, httpClient |-> httpClient],
                     at |-> now]
    /\ UNCHANGED <<now, arg>>

\* inferRelationships called once more with the same input, the server
\* answering its metadata call as before; ret keeps what the first call gave
InferRelationshipsAgain ==
    /\ op.name = "inferRelationships"
    /\ LET r == inferRelationships(state, httpClient, arg.input, arg.scen)
       IN  /\ result' = r.result
           /\ twin' = r.result
           /\ calls' = r.calls
           /\ state' = r.state
           /\ httpClient' = r.httpClient
           /\ op' = [name |-> "inferRelationshipsAgain", input |-> arg.input,
                     pre |-> [state |-> state, httpClient |-> httpClient],
                     at |-> now]
    /\ UNCHANGED <<now, arg, ret>>

RelationsNext == SearchLogin \/ InferRelationships \/ InferRelationshipsAgain

SpecRelations == RelationsInit /\ [][RelationsNext]_vars

(***************************************************************************)
(* buildSearchValue applied to one input (arg), its value in ret.          *)
(***************************************************************************)
SearchTexts == {"ABC", "abc", "7", "2024-01-31", "a*b", "==", "*", "John Doe"}

SearchModes == {"contains", "exact", "startsWith"}

FieldResultTypes == SEARCHABLE_RESULT_TYPES \cup {"container"}

BuildInit ==
    /\ SessionInit
    /\ arg \in [ searchText : SearchTexts, searchMode : SearchModes,
                 fieldResultType : FieldResultTypes ]
    /\ ret = {}

BuildSearchValue ==
    /\ ret = {}
    /\ ret' = {buildSearchValue(arg.searchText, arg.searchMode, arg.fieldResultType)}
    /\ UNCHANGED <<state, httpClient, now, op, result, twin, calls, arg>>

BuildNext == BuildSearchValue

SpecBuild == BuildInit /\ [][BuildNext]_vars

(***************************************************************************)
(* isRetryableError applied to one code (arg), its value in ret.           *)
(***************************************************************************)
\* codes tried: every code of ErrorCodes, their neighbours, and numbers that
\* are keys of the tables but no code
ErrorCodeInputs ==
    (1000..1009) \cup (2000..2009) \cup (3000..3009) \cup (4000..4009)
    \cup (5000..5009) \cup {0, 401, 500, 9999}

RetryableInit ==
    /\ SessionInit
    /\ arg \in ErrorCodeInputs
    /\ ret = {}

IsRetryableError ==
    /\ ret = {}
    /\ ret' = {isRetryableError(arg)}
    /\ UNCHANGED <<state, httpClient, now, op, result, twin, calls, arg>>

RetryableNext == IsRetryableError

SpecRetryable == RetryableInit /\ [][RetryableNext]_vars

(***************************************************************************)
(* handleLogin applied to one input (arg) with one environment.            *)
(***************************************************************************)
\* server addresses tried: leading space or not, no scheme or one of three,
\* a host or none, up to two trailing slashes
ServerInputs ==
    { lead \o scheme \o host \o tail :
        lead \in {<<>>, <<" ">>},
        scheme \in {<<>>, HttpScheme, HttpsScheme, <<"H", "T", "T", "P", ":", "/", "/">>},
        host \in {<<>>, <<"f", "m">>},
        tail \in {<<>>, <<"/">>, <<"/", "/">>} }

\* the process environment: FM_SERVER unset, secure or plain
Environments ==
    { [ FM_SERVER |-> sv, FM_DATABASE |-> {"DB0"},
        FM_USERNAME |-> {"user"}, FM_PASSWORD |-> pw ]
      : sv \in {{}, {HttpsScheme \o <<"e", "n", "v">>}, {HttpScheme \o <<"e", "n", "v">>}},
        pw \in {{}, {"secret"}} }

LoginInputs ==
    { [server |-> sv, database |-> db, username |-> {}, password |-> {}]
      : sv \in {{}} \cup {{a} : a \in ServerInputs}, db \in {{}, {"DB1"}} }

HandleLoginInit ==
    /\ SessionInit
    /\ arg \in [env : Environments, args : LoginInputs]
    /\ ret = {}

\* handleLogin returned r
HandleLoginReturned(r, o2) ==
    /\ state' = r.state
    /\ httpClient' = r.httpClient
    /\ result' = r.result
    /\ twin' = r.result
    /\ calls' = r.calls
    /\ op' = [name |-> "handleLogin", fetch |-> o2,
              pre |-> [state |-> state, httpClient |-> httpClient], at |-> now]
    /\ ret' = {r.result.success}
    /\ UNCHANGED <<now, arg>>

HandleLogin ==
    /\ ret = {}
    /\ \E o1 \in {Responded(200, JsonBody({0}, {})), Rejected}, o2 \in LoginOutcomes :
          HandleLoginReturned(
              handleLogin(state, httpClient, arg.env, arg.args, o1, o2, now), o2)

HandleLoginNext == SearchLogin \/ HandleLogin

SpecHandleLogin == HandleLoginInit /\ [][HandleLoginNext]_vars

(***************************************************************************)
(* One invocation of globalSearchData or exportDatabaseMetadata step by     *)
(* step: a step ends where the code awaits.  arg is the invocation and what *)
(* the server answers; op holds where the invocation stands (at, i), whether*)
(* it is about to call or awaiting (pc), the calls in flight and the         *)
(* positions whose call was sent, in order; calls logs the calls sent.      *)
(***************************************************************************)
\* the invocations tried
StepArgs ==
    { [name |-> "globalSearchData", input |-> c.input, scen |-> c.scen] :
      c \in SearchCases(1, {"ABC", ""}) \cup SearchCases(2, {"ABC"}) }
    \cup
    { [ name  |-> "exportDatabaseMetadata",
        input |-> [format |-> "json", options |-> os],
        scen  |-> [ list    |-> Answered(Listing(kinds)),
                    meta    |-> [i \in DOMAIN kinds |-> MetadataOutcome(kinds[i])],
                    scripts |-> so ] ] :
      os \in ExportOptionSets, so \in ScriptsOutcomes,
      kinds \in UNION {[1..n -> {"folder", "fails", "orders"}] : n \in 0..MaxLayouts} }
    \cup
    { [ name  |-> "exportDatabaseMetadata",
        input |-> [format |-> "json", options |-> {}],
        scen  |-> [ list |-> Responded(500, JsonBody({}, {})), meta |-> <<>>,
                    scripts |-> so ] ] : so \in ScriptsOutcomes }

\* the invocation has returned
Done == [at |-> "returned", i |-> 0]

\* globalSearchData: the for loop reaches layout i
SearchFrom(i) ==
    IF i <= Len(arg.input.layouts) THEN [at |-> "metadata", i |-> i] ELSE Done

\* exportDatabaseMetadata: after the loop over the layouts
AfterLayouts ==
    IF ExportOptions(arg.input).includeScripts THEN [at |-> "scripts", i |-> 0] ELSE Done

\* exportDatabaseMetadata: the for loop reaches the listed entry i, folders
\* having been filtered out
RECURSIVE ExportFrom(_, _)
ExportFrom(listed, i) ==
    IF i > Len(listed) THEN AfterLayouts
    ELSE IF listed[i].isFolder = {TRUE} THEN ExportFrom(listed, i + 1)
    ELSE [at |-> "metadata", i |-> i, name |-> listed[i].name]

\* where the invocation stands when it begins: at its first await, or returned
FirstStep ==
    IF arg.name = "globalSearchData"
    THEN IF arg.input.searchText = "" \/ Trim(arg.input.searchText) = ""
            \/ Len(arg.input.layouts) = 0
         THEN Done ELSE SearchFrom(1)
    ELSE IF ExportOptions(arg.input).includeLayouts
         THEN [at |-> "list", i |-> 0] ELSE AfterLayouts

\* the name of the layout the invocation is at
LayoutAt(pos) ==
    IF arg.name = "globalSearchData" THEN arg.input.layouts[pos.i] ELSE pos.name

\* the searchable fields of the layout the search is at
FieldsAt(pos) ==
    SearchableFields(The(request("GET", <<>>, arg.scen[pos.i].meta).data),
                     EffectiveOptions(arg.input))

\* the requests sent at a position as if by Promise.all over what is left
RequestsAt_AllAtOnce(pos) ==
    IF pos.at = "metadata" /\ arg.name = "globalSearchData"
    THEN {LayoutMetadataFn(arg.input.layouts[j]) : j \in pos.i..Len(arg.input.layouts)}
    ELSE IF pos.at = "metadata"
    THEN {LayoutMetadataFn(LayoutAt(pos)), [method |-> "GET", path |-> <<"/scripts">>, body |-> {}]}
    ELSE {[method |-> "GET", path |-> <<"/layouts">>, body |-> {}],
          [method |-> "GET", path |-> <<"/scripts">>, body |-> {}]}

\* the requests sent at a position: the one request function handed to
\* withSession there
RequestsAt(pos) ==
    CASE pos.at = "metadata" -> {LayoutMetadataFn(LayoutAt(pos))}
      [] pos.at = "find" ->
            {[ method |-> "POST",
               path   |-> <<"/layouts/", encodeURIComponent(LayoutAt(pos)), "/_find">>,
               body   |-> {SearchRequestBody(FieldsAt(pos), arg.input.searchText,
                                             EffectiveOptions(arg.input))} ]}
      [] pos.at = "list" -> {[method |-> "GET", path |-> <<"/layouts">>, body |-> {}]}
      [] OTHER -> {[method |-> "GET", path |-> <<"/scripts">>, body |-> {}]}

\* how the server answers the call of a position
OutcomeAt(pos) ==
    CASE pos.at = "metadata" /\ arg.name = "globalSearchData" -> arg.scen[pos.i].meta
      [] pos.at = "find"     -> arg.scen[pos.i].find
      [] pos.at = "metadata" -> arg.scen.meta[pos.i]
      [] pos.at = "list"     -> arg.scen.list
      [] OTHER               -> arg.scen.scripts

\* where the invocation goes once the call of a position returned response
StepAfter(pos, response) ==
    CASE pos.at = "metadata" /\ arg.name = "globalSearchData" ->
            IF ~isErrorResponse(response) /\ "data" \in DOMAIN response
               /\ Len(FieldsAt(pos)) > 0
            THEN [at |-> "find", i |-> pos.i]
            ELSE SearchFrom(pos.i + 1)
      [] pos.at = "find"     -> SearchFrom(pos.i + 1)
      [] pos.at = "metadata" ->
            ExportFrom(The(request("GET", <<>>, arg.scen.list).data).layouts, pos.i + 1)
      [] pos.at = "list"     ->
            IF isErrorResponse(response) \/ "data" \notin DOMAIN response
            THEN Done
            ELSE ExportFrom(The(response.data).layouts, 1)
      [] OTHER               -> Done

StepInit ==
    /\ SessionInit
    /\ arg \in StepArgs
    /\ ret = {}

\* the handler is called
Invoke ==
    /\ op.name = "login"
    /\ op' = [ name |-> arg.name, pc |-> "call", pos |-> FirstStep,
               inflight |-> {}, sent |-> <<>> ]
    /\ calls' = <<>>
    /\ UNCHANGED <<state, httpClient, now, result, twin, arg, ret>>

\* withSession hands the request function to the client: the call is sent
Send ==
    /\ op.name = arg.name /\ op.pc = "call" /\ op.pos.at # "returned"
    /\ op' = [op EXCEPT !.pc = "await",
                        !.inflight = @ \cup {<<op.pos, fn>> : fn \in RequestsAt(op.pos)},
                        !.sent = Append(@, op.pos)]
    /\ calls' = Append(calls,
                       LET fn == CHOOSE f \in RequestsAt(op.pos) : TRUE
                       IN  Call(The(httpClient), fn.method, fn.path, The(state).token,
                                fn.body, OutcomeAt(op.pos)))
    /\ UNCHANGED <<state, httpClient, now, result, twin, arg, ret>>

\* the awaited call returns and the handler runs on to its next await
Receive ==
    /\ op.name = arg.name /\ op.pc = "await"
    /\ \E fn \in RequestsAt(op.pos) :
          /\ <<op.pos, fn>> \in op.inflight
          /\ op' = [op EXCEPT
                      !.pc = "call",
                      !.inflight = @ \ {<<op.pos, fn>>},
                      !.pos = StepAfter(op.pos,
                                        request(fn.method, fn.path, OutcomeAt(op.pos)))]
    /\ UNCHANGED <<state, httpClient, now, result, twin, calls, arg, ret>>

\* the handler returns: its value is that of the handler run in one piece
Return ==
    /\ op.name = arg.name /\ op.pc = "call" /\ op.pos.at = "returned"
    /\ ret = {}
    /\ result' = IF arg.name = "globalSearchData"
                 THEN globalSearchData(state, httpClient, arg.input, arg.scen).result
                 ELSE exportDatabaseMetadata(state, httpClient, arg.input, arg.scen, now).result
    /\ ret' = {TRUE}
    /\ UNCHANGED <<state, httpClient, now, op, twin, calls, arg>>

StepNext == SearchLogin \/ Invoke \/ Send \/ Receive \/ Return

SpecSteps == StepInit /\ [][StepNext]_vars

(***************************************************************************)
(* Two callers of the shared session manager whose login and logout calls  *)
(* interleave at their awaits.  op[p] holds where caller p stands: idle, or *)
(* awaiting the DELETE of a logout or of a login's teardown, or awaiting    *)
(* the login request; a step runs from one await to the next.  Tokens are   *)
(* not empty here.                                                          *)
(***************************************************************************)
Procs == {1, 2}

\* calls each caller makes at most
MaxOps == 2

\* a caller between two calls, having made n
Idle(n) == [pc |-> "idle", config |-> {}, n |-> n]

ConcurrentInit ==
    /\ state = {}
    /\ httpClient = {}
    /\ now = 0
    /\ op = [p \in Procs |-> Idle(0)]
    /\ result = [success |-> TRUE]
    /\ twin = [success |-> TRUE]
    /\ calls = <<>>
    /\ arg = <<>>
    /\ ret = {}

\* login's second half up to its await: the client is made and the login
\* request sent
SendLogin(p, config) ==
    /\ httpClient' = {FileMakerHttpClient(config)}
    /\ op' = [op EXCEPT ![p] = [@ EXCEPT !.pc = "await login", !.config = {config}]]

\* login(config) is called and runs to its first await
CallLogin(p) ==
    /\ op[p].pc = "idle" /\ op[p].n < MaxOps
    /\ \E config \in Configs :
          IF hasActiveSession(state) /\ ~NoUsableSession(state, httpClient)
          THEN /\ op' = [op EXCEPT ![p] = [@ EXCEPT !.pc = "await teardown",
                                                    !.config = {config}]]
               /\ UNCHANGED <<state, httpClient>>
          ELSE /\ SendLogin(p, config)
               /\ UNCHANGED state
    /\ UNCHANGED <<now, result, twin, calls, arg, ret>>

\* the DELETE of login's teardown returns: clearSession(), logout returns,
\* and login goes on to its login request
TeardownReturns(p) ==
    /\ op[p].pc = "await teardown"
    /\ state' = clearSession(state, httpClient).state
    /\ SendLogin(p, The(op[p].config))
    /\ UNCHANGED <<now, result, twin, calls, arg, ret>>

\* the login request returns and login runs to its end
LoginReturns(p) ==
    /\ op[p].pc = "await login"
    /\ \E o \in LoginOutcomes :
          /\ o.kind = "response" /\ ResponseOk(o) => The(o.data.response).token # ""
          /\ IF isErrorResponse(loginRequest(o))
             THEN /\ httpClient' = {}
                  /\ UNCHANGED state
             ELSE /\ state' = {[ token  |-> The(loginRequest(o).data).token,
                                 info   |-> [ database  |-> The(op[p].config).database,
                                              server    |-> The(op[p].config).server,
                                              createdAt |-> now ],
                                 config |-> The(op[p].config) ]}
                  /\ UNCHANGED httpClient
          /\ result' = IF isErrorResponse(loginRequest(o)) THEN loginRequest(o)
                       ELSE [success |-> TRUE]
    /\ op' = [op EXCEPT ![p] = Idle(@.n + 1)]
    /\ UNCHANGED <<now, twin, calls, arg, ret>>

\* logout() is called: it returns at once without a session, else sends its
\* DELETE and awaits
CallLogout(p) ==
    /\ op[p].pc = "idle" /\ op[p].n < MaxOps
    /\ IF NoUsableSession(state, httpClient)
       THEN /\ op' = [op EXCEPT ![p] = Idle(@.n + 1)]
            /\ result' = LogoutNoSession
       ELSE /\ op' = [op EXCEPT ![p] = [@ EXCEPT !.pc = "await logout"]]
            /\ UNCHANGED result
    /\ UNCHANGED <<state, httpClient, now, twin, calls, arg, ret>>

\* the DELETE of logout returns: clearSession(), and logout returns
LogoutReturns(p) ==
    /\ op[p].pc = "await logout"
    /\ state' = clearSession(state, httpClient).state
    /\ httpClient' = clearSession(state, httpClient).httpClient
    /\ op' = [op EXCEPT ![p] = Idle(@.n + 1)]
    /\ result' = [success |-> TRUE]
    /\ UNCHANGED <<now, twin, calls, arg, ret>>

ConcurrentNext ==
    \E p \in Procs :
        \/ CallLogin(p)
        \/ TeardownReturns(p)
        \/ LoginReturns(p)
        \/ CallLogout(p)
        \/ LogoutReturns(p)

SpecConcurrent == ConcurrentInit /\ [][ConcurrentNext]_vars

(***************************************************************************)
(* The two analyses of a portal name, the aggregator's and the inferrer's, *)
(* applied to one name (arg), their values in ret.                          *)
(***************************************************************************)
\* a name: one of the decorations in front or none, a core or none, one of
\* the decorations behind or none
PortalNameSamples ==
    { pre \o core \o post :
        pre \in { <<>>, <<"p", "o", "r", "t", "a", "l", "_">>,
                  <<"P", "o", "r", "t", "a", "l", "_">>,
                  <<"P", "O", "R", "T", "A", "L", "_">>,
                  <<"p", "O", "r", "T", "a", "L", "_">>,
                  <<"r", "e", "l", "_">>, <<"R", "e", "l", "_">>,
                  <<"R", "E", "L", "_">> },
        core \in {<<>>, <<"O">>, <<"A", "b">>},
        post \in { <<>>, <<"_", "p", "o", "r", "t", "a", "l">>,
                   <<"_", "P", "o", "r", "t", "a", "l">>,
                   <<"_", "P", "O", "R", "T", "A", "L">>,
                   <<"_", "p", "O", "r", "T", "a", "L">>,
                   <<"_", "r", "e", "l">>, <<"_", "R", "e", "l">>,
                   <<"_", "R", "E", "L">> } }

PortalNameInit ==
    /\ SessionInit
    /\ arg \in PortalNameSamples
    /\ ret = {}

AnalysePortalName ==
    /\ ret = {}
    /\ ret' = {[ aggregator |-> inferRelationshipFromPortal("Customers", arg),
                 inferrer   |-> inferRelationshipFromPortalFields("Customers", arg, <<>>) ]}
    /\ UNCHANGED <<state, httpClient, now, op, result, twin, calls, arg>>

PortalNameNext == AnalysePortalName

SpecPortalName == PortalNameInit /\ [][PortalNameNext]_vars

(***************************************************************************)
(* isSearchableField applied to one field and one setting of               *)
(* includeCalculations (arg), its value in ret.                            *)
(***************************************************************************)
\* the types and result types FileMaker gives a field
FieldTypes == {"normal", "calculation", "summary"}

SearchableInit ==
    /\ SessionInit
    /\ arg \in [ field : { Field("F", t, r, g) :
                           t \in FieldTypes, r \in FieldResultTypes, g \in BOOLEAN },
                 includeCalculations : BOOLEAN ]
    /\ ret = {}

IsSearchableField ==
    /\ ret = {}
    /\ ret' = {isSearchableField(arg.field, arg.includeCalculations)}
    /\ UNCHANGED <<state, httpClient, now, op, result, twin, calls, arg>>

SearchableNext == IsSearchableField

SpecSearchable == SearchableInit /\ [][SearchableNext]_vars

(***************************************************************************)
(* Properties of the resolver (under SpecResolve).                         *)
(***************************************************************************)
\* C1: resolveError(s, d) is the domain table's entry for d whenever d has
\* one, whatever s is; otherwise the transport table's entry for s when s has
\* one; otherwise the unknown descriptor (5001, not retryable).  For
\* (401, 401) it is "no records match" (3002, not retryable), never 2001.
C1_ResolutionOrder ==
    ret # {} =>
        LET r == The(ret)
            s == arg.httpStatus
            d == arg.fmErrorCode
            known == d # {} /\ The(d) \in DOMAIN FM_ERROR_MAP
        IN  /\ known => r = FM_ERROR_MAP[The(d)]
            /\ (~known /\ s \in DOMAIN HTTP_ERROR_MAP) => r = HTTP_ERROR_MAP[s]
            /\ (~known /\ s \notin DOMAIN HTTP_ERROR_MAP) =>
                    (r.code = 5001 /\ r.retryable = FALSE)
            /\ (s = 401 /\ d = {401}) =>
                    /\ r.code = 3002
                    /\ r.message = "No records match the request"
                    /\ r.retryable = FALSE
                    /\ r.code # 2001

\* the colliding pair (401, 401) has been resolved
C1_Witness ==
    /\ ret # {}
    /\ arg.httpStatus = 401
    /\ arg.fmErrorCode = {401}
    /\ The(ret).code = 3002

(***************************************************************************)
(* Properties of the session manager (under Spec).                         *)
(***************************************************************************)
\* the manager holds neither a session state nor a client
Absent(m) == m.state = {} /\ m.httpClient = {}

\* the manager holds a token and a client
Active(m) == hasActiveSession(m.state) /\ m.httpClient # {}

\* the manager as it is now
Manager == [state |-> state, httpClient |-> httpClient]

\* the fetch outcome o is an error response that resolves to code c
ResolvesTo(o, c) ==
    /\ o.kind = "response"
    /\ ~ResponseOk(o)
    /\ resolveError(o.status, extractFMErrorCode(o.data)).code = c

\* result is the "no session" error (2002, not retryable)
IsNoSessionError(r) ==
    /\ isErrorResponse(r)
    /\ r.error.code = 2002
    /\ r.error.retryable = FALSE

\* C2: when the operation run through withSession on an Active session
\* returns an error of the expired-session category (2001), the manager is
\* Absent when the call returns.
C2_ExpiredClearsSession ==
    ( /\ op.name = "withSession"
      /\ Active(op.pre)
      /\ isErrorResponse(result)
      /\ result.error.code = 2001 ) => Absent(Manager)

\* C3: withSession while Absent returns the "no session" error without
\* invoking fn and without a remote call; while Active it invokes fn exactly
\* once with the stored client and token and returns fn's result unchanged.
C3_WithSession ==
    op.name = "withSession" =>
        /\ Absent(op.pre) => (IsNoSessionError(result) /\ calls = <<>>)
        /\ Active(op.pre) =>
                /\ Len(calls) = 1
                /\ calls[1].client = The(op.pre.httpClient)
                /\ calls[1].auth = The(op.pre.state).token
                /\ calls[1].method = op.fn.method
                /\ calls[1].path = op.fn.path
                /\ calls[1].outcome = op.fetch
                /\ result = request(op.fn.method, op.fn.path, op.fetch)
                /\ (op.fetch.kind = "response" /\ ResponseOk(op.fetch)) =>
                        (~isErrorResponse(result) /\ result.data = op.fetch.data.response)
                /\ (op.fetch.kind = "response" /\ ~ResponseOk(op.fetch)) =>
                        (isErrorResponse(result) /\
                         result.error.code =
                             resolveError(op.fetch.status,
                                          extractFMErrorCode(op.fetch.data)).code)

\* withSession ran fn on an Active session and handed back fn's error
C3_Witness ==
    /\ op.name = "withSession"
    /\ Active(op.pre)
    /\ Len(calls) = 1
    /\ isErrorResponse(result)
    /\ result.error.code = 5001

\* C4: after logout() on an Active session the manager is Absent, whether
\* the delete-session call succeeded, was answered with an error, or its
\* fetch threw or timed out.
C4_LogoutAlwaysClears ==
    (op.name = "logout" /\ Active(op.pre)) =>
        /\ Absent(Manager)
        /\ ~hasActiveSession(state)
        /\ Len(calls) = 1

\* logout ran on an Active session and the delete-session fetch threw
C4_Witness ==
    /\ op.name = "logout"
    /\ Active(op.pre)
    /\ op.fetch.kind = "throw"
    /\ isErrorResponse(result)
    /\ Absent(Manager)

\* a logout step from an Absent manager, or right after a logout that ran
\* on an Active session, returns the "no session" error and calls nothing
C5_SecondLogout ==
    ( /\ op'.name = "logout"
      /\ op' # op
      /\ Absent(Manager) \/ (op.name = "logout" /\ Active(op.pre)) ) =>
        /\ IsNoSessionError(result')
        /\ calls' = <<>>
        /\ Absent(Manager)'

\* C5: logout() while Absent returns the "no session" error (2002, not
\* retryable) and issues no remote call; so of two logout() calls in a row
\* from Active the second returns that error.
C5_LogoutWhenAbsent ==
    /\ []( (op.name = "logout" /\ Absent(op.pre)) =>
               (IsNoSessionError(result) /\ calls = <<>> /\ Absent(Manager)) )
    /\ [][C5_SecondLogout]_vars

\* logout ran on an Absent manager
C5_Witness ==
    /\ op.name = "logout"
    /\ Absent(op.pre)
    /\ IsNoSessionError(result)

C7_LoginTearsDownFirst ==
    (op.name = "login" /\ Active(op.pre)) =>
        LET old == The(op.pre.state).token
        IN  /\ Len(calls) = 2
            /\ calls[1].method = "DELETE"
            /\ calls[1].path = <<"/sessions/", old>>
            /\ calls[1].auth = old
            /\ calls[1].client = The(op.pre.httpClient)
            /\ calls[1].outcome \in op.teardown
            /\ calls[2].method = "POST"
            /\ calls[2].path = <<"/sessions">>
            /\ calls[2].client = FileMakerHttpClient(op.config)
            /\ calls[2].outcome = op.fetch
            /\ (op.fetch.kind = "response" /\ ResponseOk(op.fetch)) =>
                    (~isErrorResponse(result) /\ result.success = TRUE)
            /\ isErrorResponse(result) =>
                    /\ ~(op.fetch.kind = "response" /\ ResponseOk(op.fetch))
                    /\ result.error.details \in {<<"Login failed">>, <<"Login timeout">>}

\* login ran on an Active session, the teardown failed and the login succeeded
C7_Witness ==
    /\ op.name = "login"
    /\ Active(op.pre)
    /\ Len(calls) = 2
    /\ ResolvesTo(calls[1].outcome, 5001)
    /\ result.success = TRUE
    /\ Active(Manager)

C9_TokenNeverReturned == result = twin

(***************************************************************************)
(* Properties of the search (under SpecSearch).                            *)
(***************************************************************************)
\* the elements of s at the positions i with keep[i], in the order of s
Kept(s, keep) ==
    LET kept(i) == keep[i]
        at == SelectSeq([i \in DOMAIN s |-> i], kept)
    IN  [j \in DOMAIN at |-> s[at[j]]]

\* the sum of recordCount over the first n results
RECURSIVE RecordsIn(_, _)
RecordsIn(results, n) ==
    IF n = 0 THEN 0 ELSE RecordsIn(results, n - 1) + results[n].recordCount

\* the input passes the validation of globalSearchData
ValidSearchInput(input) == Trim(input.searchText) # "" /\ Len(input.layouts) > 0

\* the metadata calls among cs
MetadataCalls(cs) ==
    LET isGet(c) == c.method = "GET"
    IN  SelectSeq(cs, isGet)

\* C10: for a non-empty list of layouts and any pattern of metadata or find
\* failures, globalSearchData returns a success result; every requested
\* position of the list is in exactly one of searchedLayouts and
\* skippedLayouts, both in request order, a layout whose metadata fetch
\* failed being skipped; |searched| + |skipped| = totalLayouts = the number
\* requested; totalRecordsFound is the sum of recordCount over the searched
\* layouts; and with a session every layout is processed whatever happened
\* to those before it (its metadata call is made, in request order).
C10_SearchPartition ==
    (op.name = "globalSearchData" /\ ValidSearchInput(arg.input)) =>
        LET layouts == arg.input.layouts
            summary == result.summary
        IN  /\ result.success = TRUE
            /\ summary.totalLayouts = Len(layouts)
            /\ Len(summary.searchedLayouts) + Len(summary.skippedLayouts)
                   = summary.totalLayouts
            /\ \E searched \in [DOMAIN layouts -> BOOLEAN] :
                  /\ summary.searchedLayouts = Kept(layouts, searched)
                  /\ summary.skippedLayouts
                         = Kept(layouts, [i \in DOMAIN layouts |-> ~searched[i]])
                  /\ \A i \in DOMAIN layouts :
                        ~ResponseOk(arg.scen[i].meta) => ~searched[i]
            /\ Len(result.results) = Len(summary.searchedLayouts)
            /\ \A j \in DOMAIN result.results :
                  result.results[j].layout = summary.searchedLayouts[j]
            /\ summary.totalRecordsFound
                   = RecordsIn(result.results, Len(result.results))
            /\ Active(op.pre) =>
                  LET gets == MetadataCalls(calls)
                  IN  /\ Len(gets) = Len(layouts)
                      /\ \A i \in DOMAIN layouts :
                            gets[i].path = <<"/layouts/", layouts[i]>>

\* three layouts searched with a session, the metadata fetch of the second
\* failing and the finds of the other two returning one and two rows: two
\* searched, one skipped, three records
C10_Witness ==
    /\ op.name = "globalSearchData"
    /\ Active(op.pre)
    /\ Len(arg.input.layouts) = 3
    /\ ~ResponseOk(arg.scen[2].meta)
    /\ result.success = TRUE
    /\ result.summary.searchedLayouts
           = <<arg.input.layouts[1], arg.input.layouts[3]>>
    /\ result.summary.skippedLayouts = <<arg.input.layouts[2]>>
    /\ result.results[1].recordCount = 1
    /\ result.results[2].recordCount = 2
    /\ result.summary.totalRecordsFound = 3

\* the find call c was answered with an error carrying FileMaker code 401
NoRecordsCall(c) ==
    /\ c.method = "POST"
    /\ c.outcome.kind = "response"
    /\ ~ResponseOk(c.outcome)
    /\ extractFMErrorCode(c.outcome.data) = {401}

\* a layout reported as searched, with no record
EmptyResult(r) == r.recordCount = 0 /\ r.records = <<>>

\* the layout a metadata or find call is about
LayoutOf(c) == c.path[2]

\* C11: when the find of a layout is answered with FileMaker code 401 ("no
\* records match"), under any error status, globalSearchData does not return
\* an error and reports the layout as searched with recordCount 0 and no
\* records; the layout is not put in skippedLayouts: a layout is skipped
\* only for a call about it that was not answered so.
C11_NoRecordsIsSearched ==
    (op.name = "globalSearchData" /\ ValidSearchInput(arg.input)) =>
        LET noRecords == SelectSeq(calls, NoRecordsCall)
            empty == SelectSeq(result.results, EmptyResult)
        IN  /\ (noRecords # <<>>) => result.success = TRUE
            /\ Len(noRecords) = Len(empty)
            /\ \A i \in DOMAIN noRecords :
                  empty[i].layout = LayoutOf(noRecords[i])
            /\ Len(result.summary.skippedLayouts)
                   <= Len(arg.input.layouts) - Len(noRecords)
            /\ \A j \in DOMAIN result.summary.skippedLayouts :
                  \/ calls = <<>>
                  \/ \E k \in DOMAIN calls :
                        /\ LayoutOf(calls[k]) = result.summary.skippedLayouts[j]
                        /\ ~NoRecordsCall(calls[k])
                        /\ ~(calls[k].method = "GET" /\ k < Len(calls)
                             /\ calls[k + 1].method = "POST")

\* a single layout whose find was answered HTTP 500 with FileMaker code 401:
\* searched, no record, nothing skipped
C11_Witness ==
    /\ op.name = "globalSearchData"
    /\ Len(arg.input.layouts) = 1
    /\ Len(calls) = 2
    /\ NoRecordsCall(calls[2])
    /\ calls[2].outcome.status = 500
    /\ result.success = TRUE
    /\ result.summary.searchedLayouts = arg.input.layouts
    /\ result.summary.skippedLayouts = <<>>
    /\ EmptyResult(result.results[1])

\* C12: globalSearchData called with an empty or whitespace-only search
\* text, or with an empty list of layouts, returns the bad-request error
\* (3004, not retryable); no remote call is made, no layout is processed and
\* the session manager is left as it was.
C12_InvalidSearchInput ==
    ( /\ op.name = "globalSearchData"
      /\ \/ arg.input.searchText \in {"", " "}
         \/ arg.input.layouts = <<>> ) =>
        /\ isErrorResponse(result)
        /\ result.error.code = 3004
        /\ result.error.retryable = FALSE
        /\ calls = <<>>
        /\ "results" \notin DOMAIN result
        /\ "summary" \notin DOMAIN result
        /\ Manager = op.pre

\* a whitespace-only text with one layout, on an Active session: refused
\* without a call
C12_Witness ==
    /\ op.name = "globalSearchData"
    /\ Active(op.pre)
    /\ arg.input.searchText = " "
    /\ Len(arg.input.layouts) = 1
    /\ isErrorResponse(result)
    /\ result.error.code = 3004
    /\ calls = <<>>

\* the field metadata the find call calls[k] was built from: the payload of
\* the metadata call awaited just before it
FieldsBehind(k) == The(calls[k - 1].outcome.data.response).fieldMetaData

\* C14: no clause of a query sent by the search names a field whose result
\* type is container or whose global flag is set, whatever the metadata and
\* the options.
C14_NoContainerNoGlobalClause ==
    op.name = "globalSearchData" =>
        \A k \in DOMAIN calls :
            calls[k].method = "POST" =>
                \A i \in DOMAIN The(calls[k].body).query :
                    \A j \in DOMAIN FieldsBehind(k) :
                        FieldsBehind(k)[j].name = The(calls[k].body).query[i].field
                            => /\ FieldsBehind(k)[j].result # "container"
                               /\ ~FieldsBehind(k)[j].global

Requested(name) ==
    arg.input.options = {} \/ The(arg.input.options)[name] # {FALSE}

\* a call of the aggregator whose fetch ends in o fails: there is no
\* session to make it with, or the fetch does not end in a 2xx response
CallFails(o) ==
    \/ ~Active(op.pre)
    \/ o.kind # "response"
    \/ ~ResponseOk(o)

\* the entries the listing call of this run answered
Listed == The(arg.scen.list.data.response).layouts

\* the names of the listed entries that are layouts whose metadata fetch
\* succeeded, in listing order
FetchedLayouts ==
    LET fetched == Kept(Listed, [ i \in DOMAIN Listed |->
                                    /\ Listed[i].isFolder # {TRUE}
                                    /\ ~CallFails(arg.scen.meta[i]) ])
    IN  [i \in DOMAIN fetched |-> fetched[i].name]

\* C15: exportDatabaseMetadata returns an error exactly when the listing
\* call fails or, scripts being requested, the script list call fails;
\* otherwise it returns success whatever metadata fetches failed, and its
\* layouts are the listed non-folder layouts whose fetch succeeded, in
\* listing order.
C15_ExportPartialTolerance ==
    op.name = "exportDatabaseMetadata" =>
        LET fatal ==
                \/ Requested("includeLayouts") /\ CallFails(arg.scen.list)
                \/ Requested("includeScripts") /\ CallFails(arg.scen.scripts)
        IN  /\ isErrorResponse(result) <=> fatal
            /\ ~fatal =>
                  /\ result.success = TRUE
                  /\ Requested("includeLayouts") =>
                        [i \in DOMAIN result.data.layouts |->
                            result.data.layouts[i].name] = FetchedLayouts
                  /\ ~Requested("includeLayouts") => result.data.layouts = <<>>

\* five layouts listed, the metadata fetch of exactly one failing: success
\* with the other four
C15_Witness ==
    /\ op.name = "exportDatabaseMetadata"
    /\ Active(op.pre)
    /\ Requested("includeLayouts")
    /\ ~CallFails(arg.scen.list)
    /\ Len(Listed) = 5
    /\ \A i \in DOMAIN Listed : Listed[i].isFolder = {}
    /\ Cardinality({i \in DOMAIN Listed : CallFails(arg.scen.meta[i])}) = 1
    /\ CallFails(arg.scen.meta[3])
    /\ result.success = TRUE
    /\ Len(result.data.layouts) = 4
    /\ [i \in 1..4 |-> result.data.layouts[i].name]
           = <<ListedName(1), ListedName(2), ListedName(4), ListedName(5)>>

\* the value lists of the layouts whose metadata was fetched, entries 1..n
\* of the listing, in listing order
RECURSIVE SourceValueLists(_)
SourceValueLists(n) ==
    IF n = 0
    THEN <<>>
    ELSE IF Listed[n].isFolder = {TRUE} \/ CallFails(arg.scen.meta[n])
    THEN SourceValueLists(n - 1)
    ELSE SourceValueLists(n - 1)
             \o EntriesOf(The(arg.scen.meta[n].data.response).valueLists)

\* the value lists the aggregator read in this run
ValueListsRead ==
    IF Requested("includeLayouts") THEN SourceValueLists(Len(Listed)) ELSE <<>>

\* C16: with includeValueLists on, the value lists of a successful result
\* are the de-duplicated union of the value lists of the layouts read: one
\* entry per distinct name, with the values of the first layout in listing
\* order that defines the name.
C16_ValueListsFirstWins ==
    ( /\ op.name = "exportDatabaseMetadata"
      /\ Requested("includeValueLists")
      /\ ~isErrorResponse(result) ) =>
        LET out == EntriesOf(result.data.valueLists)
            src == ValueListsRead
        IN  /\ \A i, j \in DOMAIN out : out[i].name = out[j].name => i = j
            /\ {out[i].name : i \in DOMAIN out} = {src[k].name : k \in DOMAIN src}
            /\ \A i \in DOMAIN out :
                  \E k \in DOMAIN src :
                      /\ src[k].name = out[i].name
                      /\ src[k].values = out[i].values
                      /\ \A h \in 1..(k - 1) : src[h].name # out[i].name

\* two layouts read, both defining Status with different values: the result
\* has the three names once each, Status with the values of the first
C16_Witness ==
    /\ op.name = "exportDatabaseMetadata"
    /\ Active(op.pre)
    /\ Requested("includeValueLists")
    /\ Requested("includeLayouts")
    /\ ~isErrorResponse(result)
    /\ Len(Listed) = 2
    /\ arg.scen.meta = <<Answered(ItemsMeta), Answered(OrdersMeta)>>
    /\ result.data.valueLists
           = {<< ValueList("Status", <<"New">>), ValueList("Size", <<"S">>),
                 ValueList("Color", <<"Red">>) >>}

(***************************************************************************)
(* Properties of inferForeignKeyFromField (under SpecInfer).               *)
(***************************************************************************)
\* the name without its last n characters
DropLast(s, n) == SubSeq(s, 1, Len(s) - n)

\* the naming patterns, in their fixed order: something followed by _id;
\* something followed by id, or by a capital and id; fk_ followed by
\* something; id_ followed by something (letter case of id and fk free)
NamedLike(k, s) ==
    CASE k = 1 -> Len(s) > 3 /\ EndsWith(LowerCase(s), <<"_", "i", "d">>)
      [] k = 2 -> Len(s) > 2 /\ EndsWith(LowerCase(s), <<"i", "d">>)
      [] k = 3 -> Len(s) > 3 /\ StartsWith(LowerCase(s), <<"f", "k", "_">>)
      [] OTHER -> Len(s) > 3 /\ StartsWith(LowerCase(s), <<"i", "d", "_">>)

\* the table guess of each pattern
GuessOf(k, s) ==
    CASE k = 1 -> DropLast(s, 3)
      [] k = 2 -> IF Len(s) > 3 /\ s[Len(s) - 2] \in UpperCaseLetters
                  THEN DropLast(s, 3)
                  ELSE DropLast(s, 2)
      [] OTHER -> SubSeq(s, 4, Len(s))

\* C17: inferForeignKeyFromField returns null for a field whose result type
\* is neither text nor number and for a name that matches none of the four
\* patterns; otherwise the table is that of the first pattern that matches
\* (_id suffix, ID camel suffix, fk_ prefix, id_ prefix) and the confidence
\* is high exactly when the name ends in _id (any case) and the type is
\* number, medium otherwise, never low.  Customer_ID gives Customer, high as
\* a number and medium as a text; FirstName gives null.
C17_ForeignKeyPattern ==
    ret # {} =>
        LET fk == The(ret)
            s == arg.name
            matching == {k \in 1..4 : NamedLike(k, s)}
            first == CHOOSE k \in matching : \A h \in matching : k <= h
        IN  /\ arg.result \notin {"text", "number"} => fk = {}
            /\ matching = {} => fk = {}
            /\ (arg.result \in {"text", "number"} /\ matching # {}) =>
                  /\ fk # {}
                  /\ The(fk).fieldName = s
                  /\ The(fk).inferredReferencedTable = GuessOf(first, s)
                  /\ The(fk).confidence \in {"high", "medium"}
                  /\ The(fk).confidence = "high" <=>
                        ( /\ EndsWith(LowerCase(s), <<"_", "i", "d">>)
                          /\ arg.result = "number" )
            /\ (s = Customer_ID /\ arg.result = "number") =>
                  /\ The(fk).inferredReferencedTable
                         = <<"C", "u", "s", "t", "o", "m", "e", "r">>
                  /\ The(fk).confidence = "high"
            /\ s = FirstName => fk = {}

\* Customer_ID as a text field: table Customer, confidence medium
C17_Witness ==
    /\ arg.name = Customer_ID
    /\ arg.result = "text"
    /\ ret # {}
    /\ The(ret) # {}
    /\ The(The(ret)).inferredReferencedTable
           = <<"C", "u", "s", "t", "o", "m", "e", "r">>
    /\ The(The(ret)).confidence = "medium"

(***************************************************************************)
(* Properties of the inferrer (under SpecRelations).                       *)
(***************************************************************************)
\* the metadata the metadata call of this run answered
MetadataRead == The(arg.scen.data.response)

\* C18: for a layout whose only portal is named Orders and whose fields
\* contain Order_ID, inferRelationships returns exactly one relationship
\* whose target is Order or Orders, not two.
C18_OneRelationshipForOrders ==
    ( /\ op.name = "inferRelationships"
      /\ ~isErrorResponse(result)
      /\ Len(EntriesOf(MetadataRead.portalMetaData)) = 1
      /\ EntriesOf(MetadataRead.portalMetaData)[1].name = Orders
      /\ \E i \in DOMAIN MetadataRead.fieldMetaData :
            /\ MetadataRead.fieldMetaData[i].name = Order_ID
            /\ MetadataRead.fieldMetaData[i].result = "number" ) =>
        Cardinality({ i \in DOMAIN result.inferredRelationships :
                        result.inferredRelationships[i].targetTable
                            \in {Orders, <<"O", "r", "d", "e", "r">>} }) = 1

(***************************************************************************)
(* Properties of the results that carry guessed relationships (under       *)
(* SpecExport and SpecRelations).                                          *)
(***************************************************************************)
\* the result of the last operation hands guessed relationships to the caller
CarriesRelationships ==
    /\ ~isErrorResponse(result)
    /\ \/ op.name = "inferRelationships"
       \/ /\ op.name = "exportDatabaseMetadata"
          /\ result.data.inferredRelationships # {}

\* C19: every successful result that carries inferred relationships, from
\* inferRelationships or in the data of exportDatabaseMetadata, also carries
\* the fixed, non-empty disclaimer saying that they are guesses.
C19_RelationshipsCarryDisclaimer ==
    CarriesRelationships =>
        /\ "disclaimer" \in DOMAIN result
        /\ result.disclaimer = INFERENCE_DISCLAIMER
        /\ result.disclaimer # ""

(***************************************************************************)
(* Retryability (under SpecResolve).                                       *)
(***************************************************************************)
\* C20: the retryable flag of the descriptor resolveError returns depends on
\* the descriptor's code alone: every input that resolves to the same code
\* carries the same flag; expired-session (2001), rate-limited (3006) and
\* server-unavailable (1002) are retryable; validation (3004), not-found
\* (3001, 3002, 3003) and permission (1004, 3005) are not.
C20_RetryableByCode ==
    ret # {} =>
        /\ \A s \in StatusInputs, d \in FmInputs :
              resolveError(s, d).code = The(ret).code
                  => resolveError(s, d).retryable = The(ret).retryable
        /\ The(ret).code \in {2001, 3006, 1002} => The(ret).retryable
        /\ The(ret).code \in {3004, 3001, 3002, 3003, 1004, 3005}
              => ~The(ret).retryable

(***************************************************************************)
(* Properties of isRetryableError (under SpecRetryable).                   *)
(***************************************************************************)
\* the entries of a table that carry the code
Carrying(table, code) == {k \in DOMAIN table : table[k].code = code}

\* C21: isRetryableError(code) is the retryable flag of the first entry that
\* carries the code, the transport table being scanned before the domain
\* table, and false for a code that is in neither table.
C21_RetryableLookup ==
    ret # {} =>
        LET inHttp == Carrying(HTTP_ERROR_MAP, arg)
            inFm   == Carrying(FM_ERROR_MAP, arg)
            first(ks) == CHOOSE k \in ks : \A h \in ks : k <= h
        IN  /\ inHttp # {} => The(ret) = HTTP_ERROR_MAP[first(inHttp)].retryable
            /\ (inHttp = {} /\ inFm # {})
                   => The(ret) = FM_ERROR_MAP[first(inFm)].retryable
            /\ (inHttp = {} /\ inFm = {}) => The(ret) = FALSE

\* the expired-session code, which only the transport table carries: retryable
C21_Witness ==
    /\ arg = 2001
    /\ Carrying(HTTP_ERROR_MAP, arg) # {}
    /\ Carrying(FM_ERROR_MAP, arg) = {}
    /\ ret = {TRUE}

(***************************************************************************)
(* Properties of one remote call (under SpecRequest).                      *)
(***************************************************************************)
\* the descriptor of a timed-out call whatever its details text
IsGatewayTimeout(r) ==
    /\ isErrorResponse(r)
    /\ r.error.code = resolveError(504, {}).code
    /\ r.error.retryable = resolveError(504, {}).retryable
    /\ r.error.retryable = TRUE

\* C22: every remote call is bounded by its deadline: a call does not go on
\* waiting, for the headers or for the body, once its deadline has passed
\* with nothing left to abort it, and a call that was still waiting when its
\* deadline passed returns the gateway-timeout descriptor.
C22_BoundedByDeadline ==
    op.name \in {"request", "loginRequest"} =>
        /\ (op.at \in {"fetch", "body"} /\ now >= op.deadline) => op.timeoutId # {}
        /\ (op.at = "returned" /\ now >= op.deadline) => IsGatewayTimeout(result)

(***************************************************************************)
(* Properties of handleLogin (under SpecHandleLogin).                      *)
(***************************************************************************)
\* the address handleLogin was given: the argument, else the environment's
AddressGiven == IF arg.args.server # {} THEN arg.args.server ELSE arg.env.FM_SERVER

\* the login requests among the calls of the last operation
LoginRequests ==
    {i \in DOMAIN calls : calls[i].method = "POST" /\ calls[i].path = <<"/sessions">>}

\* C23: handleLogin never sends a login request to a server address that
\* does not begin with https://; an address beginning with http:// makes it
\* return the non-retryable configuration error 5002 with no remote call; an
\* address given without a scheme is used with https:// put before it.
C23_HttpsOnly ==
    op.name = "handleLogin" =>
        /\ \A i \in LoginRequests : StartsWith(calls[i].client.baseUrl, HttpsScheme)
        /\ (AddressGiven # {} /\ StartsWith(TrimText(The(AddressGiven)), HttpScheme))
               => /\ calls = <<>>
                  /\ isErrorResponse(result)
                  /\ result.error.code = 5002
                  /\ result.error.retryable = FALSE
        /\ \A i \in LoginRequests :
               LET given == TrimText(The(AddressGiven))
               IN  (~StartsWith(given, HttpScheme) /\ ~StartsWith(given, HttpsScheme))
                       => StartsWith(calls[i].client.baseUrl, HttpsScheme \o given)
                          \/ StartsWith(HttpsScheme \o given, calls[i].client.baseUrl)

C25_WithSessionFrame ==
    /\ ( /\ op.name = "withSession"
         /\ ~(isErrorResponse(result) /\ result.error.code = 2001) )
           => state = op.pre.state
    /\ op.name = "getSessionAge"
           => (state = op.pre.state /\ httpClient = op.pre.httpClient)

\* a withSession on a live session whose request failed otherwise than by
\* expiry
C25_Witness ==
    /\ op.name = "withSession"
    /\ Active(op.pre)
    /\ isErrorResponse(result)
    /\ result.error.code # 2001
    /\ Len(calls) = 1
    /\ state = op.pre.state

(***************************************************************************)
(* Expired sessions inside a search (under SpecSearch).                    *)
(***************************************************************************)
\* C26: when a call made for one layout by the search fails with the
\* expired-session error, the session becomes absent and the value returned
\* carries that error, instead of the layout being counted as skipped in a
\* successful result.
C26_ExpiredNotSwallowed ==
    ( /\ op.name = "globalSearchData"
      /\ \E i \in DOMAIN calls : ResolvesTo(calls[i].outcome, 2001) ) =>
        /\ Absent(Manager)
        /\ isErrorResponse(result)
        /\ result.error.code = 2001

(***************************************************************************)
(* Properties of a stepwise invocation (under SpecSteps).                   *)
(***************************************************************************)
\* the calls the same invocation makes when run in one piece
CallsInOnePiece ==
    IF arg.name = "globalSearchData"
    THEN globalSearchData(state, httpClient, arg.input, arg.scen).calls
    ELSE exportDatabaseMetadata(state, httpClient, arg.input, arg.scen, now).calls

\* C27: within one invocation of the search or of the aggregation at most
\* one remote call is in flight at any time; the calls of a layout are sent
\* only after the layout before it is finished with, so that the layouts are
\* worked on in the order requested or listed.
C27_OneCallAtATime ==
    op.name \in {"globalSearchData", "exportDatabaseMetadata"} =>
        /\ Cardinality(op.inflight) <= 1
        /\ op.pc = "call" => op.inflight = {}
        /\ \A j, k \in DOMAIN op.sent :
              (j < k /\ op.sent[j].at \in {"metadata", "find"}
                     /\ op.sent[k].at \in {"metadata", "find"})
                  => \/ op.sent[j].i < op.sent[k].i
                     \/ /\ op.sent[j].i = op.sent[k].i
                        /\ op.sent[j].at = "metadata" /\ op.sent[k].at = "find"
                        /\ k = j + 1
        /\ Len(calls) = Len(op.sent)
        /\ ret # {} => calls = CallsInOnePiece

\* a search of two layouts that sent four calls, or an aggregation that
\* fetched two layouts and the scripts, one after the other
C27_Witness ==
    /\ op.name \in {"globalSearchData", "exportDatabaseMetadata"}
    /\ ret # {}
    /\ Len(calls) = 4
    /\ op.inflight = {}
    /\ calls = CallsInOnePiece

(***************************************************************************)
(* Properties of interleaved session operations (under SpecConcurrent).    *)
(***************************************************************************)
\* C28: when session operations interleave at their awaits, then once all
\* of them have returned the manager is either absent or holds a token
\* together with the client built from the configuration that obtained the
\* token: never a token with no client or with another login's client.
C28_TokenWithItsClient ==
    (\A p \in Procs : op[p].pc = "idle") =>
        \/ Absent(Manager)
        \/ /\ state # {}
           /\ httpClient = {FileMakerHttpClient(The(state).config)}

(***************************************************************************)
(* Login over a live session, and what the manager holds (under Spec).     *)
(***************************************************************************)
\* C29: login() called while the session is active, the new login request
\* failing, returns that login error and leaves the manager absent: the
\* previous session was torn down and is not put back.
C29_FailedReloginEndsAbsent ==
    ( /\ op.name = "login"
      /\ Active(op.pre)
      /\ isErrorResponse(loginRequest(op.fetch)) ) =>
        /\ result = loginRequest(op.fetch)
        /\ Absent(Manager)
        /\ Len(calls) = 2
        /\ calls[1].method = "DELETE"
        /\ calls[1].auth = The(op.pre.state).token

\* a login over a live session whose login request was refused
C29_Witness ==
    /\ op.name = "login"
    /\ Active(op.pre)
    /\ ResolvesTo(op.fetch, 1001)
    /\ isErrorResponse(result)
    /\ Absent(Manager)

\* C30: after any sequence of completed login, logout, validateSession and
\* withSession calls run one at a time, whatever the server answered (a
\* successful login with an empty token included), the manager holds a
\* session state if and only if it holds a client, and hasActiveSession() is
\* true exactly when it holds both.
C30_StateIffClient ==
    /\ state # {} <=> httpClient # {}
    /\ hasActiveSession(state) <=> (state # {} /\ httpClient # {})

(***************************************************************************)
(* Properties of the analyses of a portal name (under SpecPortalName).     *)
(***************************************************************************)
\* C31: for every portal name the target and the confidence the aggregator
\* reports equal those the inferrer's portal analysis gives for the name.
C31_SamePortalAnalysis ==
    ret # {} =>
        /\ The(ret).aggregator.inferredTargetTable = The(ret).inferrer.targetTable
        /\ The(ret).aggregator.confidence = The(ret).inferrer.confidence

\* the decorations the inferrer knows, in front and behind
KnownPrefixes == {PortalPrefixes[k] : k \in DOMAIN PortalPrefixes}

KnownSuffixes == {PortalSuffixes[k] : k \in DOMAIN PortalSuffixes}

\* name is p, then t, then q
Decorated(name, p, t, q) == name = p \o t \o q

\* C35: the inferrer's guessed target is the portal name with a known prefix
\* and a known suffix taken off where there is one, and the name itself when
\* nothing is taken off or nothing would be left; the confidence is high
\* exactly when the target equals the name ignoring case, else medium.
C35_GuessedTarget ==
    ret # {} =>
        LET t == The(ret).inferrer.targetTable
            c == The(ret).inferrer.confidence
            rests == {SubSeq(arg, i, j) : i \in 1..(Len(arg) + 1), j \in 0..Len(arg)}
        IN  /\ \E p \in KnownPrefixes \cup {<<>>}, q \in KnownSuffixes \cup {<<>>},
                  r \in rests :
                  /\ Decorated(arg, p, r, q)
                  /\ p = <<>> => \A pp \in KnownPrefixes : ~StartsWith(arg, pp)
                  /\ q = <<>> => \A qq \in KnownSuffixes : ~EndsWith(r, qq)
                  /\ t = IF r = <<>> THEN arg ELSE r
            /\ c \in {"high", "medium"}
            /\ c = "high" <=> LowerCase(t) = LowerCase(arg)

\* a name with a decoration in front and one behind, both taken off
C35_Witness ==
    /\ arg = <<"R", "e", "l", "_", "A", "b", "_", "P", "O", "R", "T", "A", "L">>
    /\ ret # {}
    /\ The(ret).inferrer.targetTable = <<"A", "b">>
    /\ The(ret).inferrer.confidence = "medium"

(***************************************************************************)
(* The resolver against isRetryableError (under SpecResolve).              *)
(***************************************************************************)
\* C32: for every transport status and domain code, isRetryableError of the
\* code of the descriptor resolveError returns equals the retryable flag of
\* that descriptor, the generic unknown descriptor included.
C32_RetryableAgrees ==
    \A e \in ret : isRetryableError(e.code) = e.retryable

(***************************************************************************)
(* The search without a session (under SpecSearch).                        *)
(***************************************************************************)
\* C33: globalSearchData called with valid input while there is no session
\* makes no remote call and returns a success result that lists every
\* layout asked for as skipped, with no result and totalRecordsFound 0; the
\* "no session" error does not reach the caller.
C33_SearchWhenAbsent ==
    ( /\ op.name = "globalSearchData"
      /\ op.pre.state = {}
      /\ ValidSearchInput(arg.input) ) =>
        /\ calls = <<>>
        /\ ~isErrorResponse(result)
        /\ result # WithSessionNoSession
        /\ result.success = TRUE
        /\ result.results = <<>>
        /\ result.summary.skippedLayouts = arg.input.layouts
        /\ result.summary.searchedLayouts = <<>>
        /\ result.summary.totalRecordsFound = 0
        /\ Manager = op.pre

\* three layouts searched without a session: all three skipped, no call
C33_Witness ==
    /\ op.name = "globalSearchData"
    /\ op.pre.state = {}
    /\ op.pre.httpClient = {}
    /\ Len(arg.input.layouts) = 3
    /\ arg.input.searchText = "ABC"
    /\ calls = <<>>
    /\ result.success = TRUE
    /\ result.summary.skippedLayouts = arg.input.layouts
    /\ result.summary.totalRecordsFound = 0

(***************************************************************************)
(* Relationships from fields against relationships from portals (under     *)
(* SpecRelations).                                                         *)
(***************************************************************************)
\* the relationships of the result that inferRelationships built from a
\* portal, and those it built from a field
FromPortal == {i \in DOMAIN result.inferredRelationships :
                  result.inferredRelationships[i].type = "one-to-many"}

FromField == {i \in DOMAIN result.inferredRelationships :
                 result.inferredRelationships[i].type = "unknown"}

\* C34: in the output of inferRelationships the target of every relationship
\* built from a field differs, ignoring case, from the target of every
\* relationship built from a portal.
C34_FieldTargetsAreNew ==
    ( /\ op.name \in {"inferRelationships", "inferRelationshipsAgain"}
      /\ ~isErrorResponse(result) ) =>
        \A i \in FromField, j \in FromPortal :
            LowerCase(result.inferredRelationships[i].targetTable)
                # LowerCase(result.inferredRelationships[j].targetTable)

\* a layout with the portal ORDER and the fields Order_ID and Customer_ID:
\* Order_ID is a foreign key but adds no relationship, Customer_ID adds one
C34_Witness ==
    /\ op.name = "inferRelationships"
    /\ ~isErrorResponse(result)
    /\ \E k \in DOMAIN result.inferredForeignKeys :
          result.inferredForeignKeys[k].inferredReferencedTable
              = <<"O", "r", "d", "e", "r">>
    /\ \E j \in FromPortal :
          result.inferredRelationships[j].targetTable = <<"O", "R", "D", "E", "R">>
    /\ FromField # {}
    /\ \A i \in FromField :
          result.inferredRelationships[i].targetTable # <<"O", "r", "d", "e", "r">>

(***************************************************************************)
(* The record limit of the find calls (under SpecSearch).                  *)
(***************************************************************************)
\* the record limit the caller asked for, {} when none
RequestedLimit ==
    IF arg.input.options = {} THEN {}
    ELSE The(arg.input.options).maxRecordsPerLayout

\* C36: the record limit sent with the query of each layout is the smaller
\* of the limit asked for and 1000, or 100 when none was asked for; it is
\* never above 1000.
C36_RecordLimit ==
    op.name = "globalSearchData" =>
        \A k \in DOMAIN calls :
            calls[k].method = "POST" =>
                /\ The(calls[k].body).limit <= 1000
                /\ RequestedLimit = {} => The(calls[k].body).limit = 100
                /\ \A n \in RequestedLimit :
                      The(calls[k].body).limit = IF n < 1000 THEN n ELSE 1000

\* 2000 records asked for: the query is sent with the limit 1000
C36_Witness ==
    /\ op.name = "globalSearchData"
    /\ RequestedLimit = {2000}
    /\ \E k \in DOMAIN calls :
          /\ calls[k].method = "POST"
          /\ The(calls[k].body).limit = 1000

SkipReasons(sc) ==
    [ n \in DOMAIN arg.input.layouts |->
        LET r == searchLayout(op.pre.state, op.pre.httpClient,
                              arg.input.layouts[n], arg.input.searchText,
                              EffectiveOptions(arg.input), sc[n])
        IN  IF r.skipped THEN {r.skipReason} ELSE {} ]

\* C38: every layout the search skips, for a metadata failure, for having no
\* searchable field or for a query failure, is reported in the result with
\* the reason it was skipped: the result lists the layout as skipped, and
\* two searches that return the same result skipped their layouts for the
\* same reasons.
C38_SkippedWithReason ==
    ( /\ op.name = "globalSearchData"
      /\ ValidSearchInput(arg.input) ) =>
        /\ \A n \in DOMAIN arg.input.layouts :
              SkipReasons(arg.scen)[n] # {} =>
                  \E k \in DOMAIN result.summary.skippedLayouts :
                      result.summary.skippedLayouts[k] = arg.input.layouts[n]
        /\ \A sc \in [DOMAIN arg.input.layouts -> LayoutScenarios] :
              globalSearchData(op.pre.state, op.pre.httpClient, arg.input, sc).result
                      = result
                  => SkipReasons(sc) = SkipReasons(arg.scen)

(***************************************************************************)
(* handleLogin on a configuration that fails validation (under             *)
(* SpecHandleLogin).                                                       *)
(***************************************************************************)
\* C39: handleLogin called with a configuration that fails validation
\* returns the configuration error without calling login: no remote call is
\* made and the session manager, an Active session included, is left as it
\* was.
C39_InvalidConfigFrame ==
    ( /\ op.name = "handleLogin"
      /\ ~isValidConfig(getConfig(arg.env, arg.args)) ) =>
        /\ calls = <<>>
        /\ Manager = op.pre
        /\ isErrorResponse(result)
        /\ result.error.code = 5002
        /\ result.error.message = "Invalid configuration"
        /\ result.error.retryable = FALSE

\* an Active session, then handleLogin with no password in the environment:
\* the configuration error, and the session as before
C39_Witness ==
    /\ op.name = "handleLogin"
    /\ Active(op.pre)
    /\ arg.env.FM_PASSWORD = {}
    /\ ~isValidConfig(getConfig(arg.env, arg.args))
    /\ result.error.code = 5002
    /\ calls = <<>>
    /\ Active(Manager)
    /\ Manager = op.pre

(***************************************************************************)
(* Age and the session (under SpecAging).                                  *)
(***************************************************************************)
\* the age in seconds the session of m has at time t, and its timeout
AgeAt(m, t) == (t - The(m.state).info.createdAt) \div 1000

TimeoutOf(m) == The(m.state).config.sessionTimeout

\* the session of st as if it had been created at time t
CreatedAt(st, t) == {[s EXCEPT !.info.createdAt = t] : s \in st}

\* C40: isSessionExpiringSoon(buffer) is true exactly when there is a
\* session state and its age is at least its timeout less the buffer, and it
\* changes nothing; withSession, validateSession and logout neither refuse
\* nor clear a session because of its age: they end as they would on a
\* session just created, also when the age is past the timeout.
C40_AgeIsAdvisory ==
    /\ op.name = "isSessionExpiringSoon" =>
          /\ ret = { /\ op.pre.state # {}
                     /\ AgeAt(op.pre, op.at) >= TimeoutOf(op.pre) - op.bufferSeconds }
          /\ Manager = op.pre
          /\ calls = <<>>
    /\ op.name = "withSession" =>
          LET young == withSession(CreatedAt(op.pre.state, op.at), op.pre.httpClient,
                                   op.fn, op.fetch)
          IN  /\ result = young.result
              /\ (state = {}) = (young.state = {})
              /\ Len(calls) = Len(young.calls)
    /\ op.name = "validateSession" =>
          LET young == validateSession(CreatedAt(op.pre.state, op.at),
                                       op.pre.httpClient, op.fetch, op.at)
          IN  /\ result.valid = young.result.valid
              /\ result.message = young.result.message
              /\ (state = {}) = (young.state = {})
              /\ Len(calls) = Len(young.calls)
    /\ op.name = "logout" =>
          LET young == logout(CreatedAt(op.pre.state, op.at), op.pre.httpClient,
                              op.fetch)
          IN  /\ result = young.result
              /\ Len(calls) = Len(young.calls)
    /\ ( /\ op.name \in {"withSession", "validateSession"}
         /\ Active(op.pre)
         /\ op.fetch.kind = "response"
         /\ op.fetch.status = 200 ) =>
            /\ ~isErrorResponse(result)
            /\ state = op.pre.state

\* a session three seconds old with a timeout of two was reported as
\* expiring, and withSession still ran the request on it and kept it
C40_Witness ==
    /\ op.name = "withSession"
    /\ Active(op.pre)
    /\ AgeAt(op.pre, op.at) = 3
    /\ TimeoutOf(op.pre) = 2
    /\ ret = {TRUE}
    /\ ~isErrorResponse(result)
    /\ Len(calls) = 1
    /\ state = op.pre.state

====
